---- MODULE Spec2Model ----
(***************************************************************************)
(* SplatVote: the vote-admission core (routes/votes.py), the ELO rating    *)
(* service (services/elo.py), the abuse-detection service                  *)
(* (services/fingerprint.py) and the relational store they write to        *)
(* (models/database.py), as a state machine.                               *)
(*                                                                         *)
(* A request handler is a coroutine: between two awaited statements other  *)
(* requests run.  submit_vote is modelled in two steps, split where the    *)
(* interleaving matters: the admission reads (lines 39-73, ending with the *)
(* prior-vote SELECT) and the rest of the handler (lines 75-199).          *)
(***************************************************************************)
EXTENDS Integers, Sequences, FiniteSets, Bags, TLC

VARIABLES
    db,        \* the committed rows of the voting schema
    redis,     \* the key space of the shared counter store
    inflight,  \* bag of submit_vote requests suspended after the prior-vote SELECT
    resp,      \* the response produced last, and what was true of its request
    call       \* the request answered last, when requests are served one by one

vars == <<db, redis, inflight, resp, call>>

-----------------------------------------------------------------------------
(* Bounds of the model *)

\* submit_vote coroutines suspended at the same time
MaxInFlight == 2

-----------------------------------------------------------------------------
(* Optional values: None is the empty sequence, a value v is <<v>> *)

None == << >>
Some(v) == <<v>>

Range(f) == { f[x] : x \in DOMAIN f }

Rep(c, n) == [i \in 1..n |-> c]

-----------------------------------------------------------------------------
(* models/enums.py *)

\* class ComparisonMode(str, Enum): member name -> value
ComparisonMode ==
    [ SINGLE_CHOICE  |-> "single_choice",
      ELO_TOURNAMENT |-> "elo_tournament",
      RANKED_LIST    |-> "ranked_list" ]

\* ComparisonMode.<member> raises AttributeError for a name that is no member
HasMember(member) == member \in DOMAIN ComparisonMode

\* [m.value for m in ComparisonMode]
ModeValues == Range(ComparisonMode)

-----------------------------------------------------------------------------
(* services/fingerprint.py: fingerprint validation and identity *)

HexDigits ==
    { "0", "1", "2", "3", "4", "5", "6", "7", "8", "9",
      "a", "b", "c", "d", "e", "f", "A", "B", "C", "D", "E", "F" }

Whitespace == { " ", "\t", "\n", "\r" }

RECURSIVE LStrip(_)
LStrip(s) ==
    IF s # << >> /\ Head(s) \in Whitespace THEN LStrip(Tail(s)) ELSE s

RECURSIVE RStrip(_)
RStrip(s) ==
    IF s # << >> /\ s[Len(s)] \in Whitespace
    THEN RStrip(SubSeq(s, 1, Len(s) - 1))
    ELSE s

\* digits of an integer literal: hex digits, single underscores between digits
DigitsOk(s) ==
    /\ s # << >>
    /\ \A i \in 1..Len(s) : s[i] \in HexDigits \cup {"_"}
    /\ s[1] # "_"
    /\ s[Len(s)] # "_"
    /\ \A i \in 1..(Len(s) - 1) : ~(s[i] = "_" /\ s[i + 1] = "_")

\* int(text, 16) returns (does not raise ValueError): surrounding whitespace,
\* a sign, a 0x prefix and underscores between digits are part of the literal
IntBase16Parses(text) ==
    LET t == RStrip(LStrip(text))
        u == IF t # << >> /\ Head(t) \in {"+", "-"} THEN Tail(t) ELSE t
        prefixed == Len(u) >= 2 /\ u[1] = "0" /\ u[2] \in {"x", "X"}
        v == IF prefixed THEN SubSeq(u, 3, Len(u)) ELSE u
    IN  IF prefixed
        THEN \/ DigitsOk(v)
             \/ (v # << >> /\ Head(v) = "_" /\ DigitsOk(Tail(v)))
        ELSE DigitsOk(v)

FingerprintLen == 64

validate_fingerprint(fingerprint) ==
    IF Len(fingerprint) # FingerprintLen THEN FALSE
    ELSE IntBase16Parses(fingerprint)

\* The fingerprints clients send, by name, and the 64 characters of each
Fingerprints == { "f1", "f2", "fbad" }

FingerprintText(f) ==
    CASE f = "f1"   -> Rep("a", 64)
      [] f = "f2"   -> Rep("B", 63) \o <<"7">>
      [] f = "fbad" -> Rep("a", 63) \o <<"g">>

\* os.getenv("VOTE_IP_PEPPER") of the deployment
VOTE_IP_PEPPER == "pepper"

\* sha256((pepper + ip).encode()).hexdigest(): a digest is determined by, and
\* stands for, the text hashed
hash_ip(ip) == << "sha256", VOTE_IP_PEPPER, ip >>

\* the client address get_client_ip resolves for a request
ClientIps == { "ip1" }

\* validate_fingerprint of each fingerprint clients send
FingerprintValid ==
    [ f \in Fingerprints |-> validate_fingerprint(FingerprintText(f)) ]

\* (fingerprint_hash, ip_hash): the fingerprint is used as sent
get_vote_identity(ip, fingerprint) ==
    [ fingerprint_hash |-> fingerprint, ip_hash |-> hash_ip(ip) ]

-----------------------------------------------------------------------------
(* services/fingerprint.py: AntiManipulationService over the counter store *)

max_fingerprints_per_ip == 5
max_ips_per_fingerprint == 3

\* where a Redis command of the call raises redis.RedisError
RedisFaults == { "none", "first_command" }

\* returns (is_suspicious, reason) and the key space the call leaves behind
check_suspicious_patterns(rds, ip_hash, fingerprint, fault) ==
    IF fault = "first_command"
    THEN [ is_suspicious |-> FALSE, reason |-> None, redis |-> rds ]
    ELSE
      LET r1 == [ rds EXCEPT !.ip_fps[ip_hash] = @ \cup {fingerprint} ]
          unique_fps == Cardinality(r1.ip_fps[ip_hash])
      IN  IF unique_fps > max_fingerprints_per_ip
          THEN [ is_suspicious |-> TRUE,
                 reason |-> Some("Too many different devices from same IP"),
                 redis |-> r1 ]
          ELSE
            LET r2 == [ r1 EXCEPT !.fp_ips[fingerprint] = @ \cup {ip_hash} ]
                unique_ips == Cardinality(r2.fp_ips[fingerprint])
            IN  IF unique_ips > max_ips_per_fingerprint
                THEN [ is_suspicious |-> TRUE,
                       reason |-> Some("Device seen from too many different IPs"),
                       redis |-> r2 ]
                ELSE [ is_suspicious |-> FALSE, reason |-> None, redis |-> r2 ]

\* hincrby on the hourly bucket; a RedisError is swallowed
record_vote_attempt(rds, ip_hash, fingerprint, category_id, success, fault) ==
    IF fault # "none" THEN rds
    ELSE [ rds EXCEPT !.attempts =
             @ (+) SetToBag({ << ip_hash, fingerprint, category_id, success >> }) ]

-----------------------------------------------------------------------------
(* models/database.py: the rows of the voting schema and its constraints *)

\* Optional[int] rank of a VoteChoice
NoRank == None

\* UniqueConstraint("category_id", "fingerprint_hash", name="uq_vote_per_fingerprint"):
\* the INSERT of row is refused
uq_vote_per_fingerprint(votes, row) ==
    \E v \in votes :
        /\ v.category_id = row.category_id
        /\ v.fingerprint_hash = row.fingerprint_hash

\* UniqueConstraint("vote_id", "item_id", name="uq_choice_per_vote"): flushing the
\* pending rows (a sequence, in the order they were added) is refused
uq_choice_per_vote(vote_choices, pending) ==
    \/ \E i \in 1..Len(pending) : \E c \in vote_choices :
           c.vote_id = pending[i].vote_id /\ c.item_id = pending[i].item_id
    \/ \E i, j \in 1..Len(pending) :
           /\ i # j
           /\ pending[i].vote_id = pending[j].vote_id
           /\ pending[i].item_id = pending[j].item_id

\* Variant: the elo_ratings table without the uq_elo_per_item constraint
uq_elo_per_item_Off(elo_ratings, row) == FALSE

\* UniqueConstraint("category_id", "item_id", name="uq_elo_per_item")
uq_elo_per_item(elo_ratings, row) ==
    \E r \in elo_ratings :
        r.category_id = row.category_id /\ r.item_id = row.item_id

\* Comment.vote_id is unique=True
uq_comment_vote_id(comments, row) ==
    \E c \in comments : c.vote_id = row.vote_id

\* the rows of Vote, VoteChoice, Comment and EloRating
VotingRows(store) ==
    << store.votes, store.vote_choices, store.comments, store.elo_ratings >>

\* SelectVote without the category_id condition: a vote of the voter in any
\* category
SelectVote_AnyCategory(store, category_id, fingerprint_hash) ==
    { v \in store.votes : v.fingerprint_hash = fingerprint_hash }

\* select(Vote).where(category_id == ..., fingerprint_hash == ...).scalar_one_or_none():
\* the set holds the row, or nothing
SelectVote(store, category_id, fingerprint_hash) ==
    { v \in store.votes :
        v.category_id = category_id /\ v.fingerprint_hash = fingerprint_hash }

\* select(CategoryItem.item_id).where(category_id == ...)
ValidItemIds(store, category_id) ==
    { ci[2] : ci \in { x \in store.category_items : x[1] = category_id } }

-----------------------------------------------------------------------------
(* The categories and items of the deployment.  Category rows are written *)
(* by the category sync and the admin routes only; the handlers below read *)
(* them.                                                                   *)

TierSettings == [ tier_options |-> << "S", "A", "B" >> ]
NoSettings == [ k \in {} |-> << >> ]

Categories ==
    [ c \in 1..5 |->
        CASE c = 1 -> [ comparison_mode |-> "single_choice",
                        is_active |-> TRUE, settings |-> NoSettings ]
          [] c = 2 -> [ comparison_mode |-> "elo_tournament",
                        is_active |-> TRUE, settings |-> NoSettings ]
          [] c = 3 -> [ comparison_mode |-> "ranked_list",
                        is_active |-> TRUE, settings |-> NoSettings ]
          [] c = 4 -> [ comparison_mode |-> "tournament_tiers",
                        is_active |-> TRUE, settings |-> TierSettings ]
          [] c = 5 -> [ comparison_mode |-> "elo_tournament",
                        is_active |-> FALSE, settings |-> NoSettings ] ]

\* 6 is the id of no category
CategoryIds == 1..6

Items == { 1, 2, 3 }

CategoryItems == (DOMAIN Categories) \X Items

EmptyStore ==
    [ categories     |-> Categories,
      category_items |-> CategoryItems,
      votes          |-> {},
      vote_choices   |-> {},
      comments       |-> {},
      elo_ratings    |-> {},
      vote_id_seq    |-> 0 ]

\* A store that already holds the single_choice vote of voter f1 in category 1
\* (the store outlives the process: rows of earlier runs are its input)
VotedStore ==
    [ EmptyStore EXCEPT
        !.votes = { [ id |-> 1, category_id |-> 1, fingerprint_hash |-> "f1",
                      ip_hash |-> hash_ip("ip1") ] },
        !.vote_choices = { [ vote_id |-> 1, item_id |-> 1, rank |-> NoRank ] },
        !.vote_id_seq = 1 ]

InitialStores == { EmptyStore, VotedStore }

-----------------------------------------------------------------------------
(* services/elo.py.  Ratings are kept in hundredths (1500.0 is 150000): the *)
(* code rounds every rating it stores to two decimals.                      *)

\* initial_rating = 1500.0; k_factor = 32.0 is part of EloGain
initial_rating == 150000

\* round(k_factor * (1 - expected_winner), 2) in hundredths, where
\* expected_winner = 1 / (1 + 10 ** ((loser_rating - winner_rating) / 400)),
\* by the difference loser_rating - winner_rating in hundredths: the values the
\* code computes (IEEE doubles) for every difference that arises within four
\* matches between ratings that started at 1500.0, and between any two ratings
\* that two matches can have produced (which sessions at once can hold together)
EloGain(diff) ==
    CASE diff = -8750 -> 1205 [] diff = -7566 -> 1257 [] diff = -7494 -> 1260
      [] diff = -7426 -> 1263 [] diff = -6400 -> 1309 [] diff = -6326 -> 1312
      [] diff = -6323 -> 1312 [] diff = -6255 -> 1315 [] diff = -6253 -> 1315
      [] diff = -6252 -> 1315 [] diff = -6179 -> 1318 [] diff = -6174 -> 1319
      [] diff = -6113 -> 1321 [] diff = -6106 -> 1322 [] diff = -6036 -> 1325
      [] diff = -5973 -> 1328 [] diff = -4874 -> 1377 [] diff = -4804 -> 1380
      [] diff = -4800 -> 1380 [] diff = -4794 -> 1381 [] diff = -4793 -> 1381
      [] diff = -4788 -> 1381 [] diff = -4727 -> 1384 [] diff = -4726 -> 1384
      [] diff = -4653 -> 1387 [] diff = -4652 -> 1387 [] diff = -4586 -> 1390
      [] diff = -4579 -> 1390 [] diff = -4375 -> 1400 [] diff = -4366 -> 1400
      [] diff = -3466 -> 1441 [] diff = -3418 -> 1443 [] diff = -3348 -> 1446
      [] diff = -3347 -> 1446 [] diff = -3333 -> 1447 [] diff = -3274 -> 1450
      [] diff = -3273 -> 1450 [] diff = -3268 -> 1450 [] diff = -3206 -> 1453
      [] diff = -3200 -> 1453 [] diff = -3198 -> 1453 [] diff = -3132 -> 1456
      [] diff = -3127 -> 1456 [] diff = -3126 -> 1456 [] diff = -3123 -> 1457
      [] diff = -3067 -> 1459 [] diff = -3055 -> 1460 [] diff = -3053 -> 1460
      [] diff = -3052 -> 1460 [] diff = -2979 -> 1463 [] diff = -2976 -> 1463
      [] diff = -2934 -> 1465 [] diff = -2913 -> 1466 [] diff = -2906 -> 1466
      [] diff = -2836 -> 1470 [] diff = -2350 -> 1492 [] diff = -1887 -> 1513
      [] diff = -1821 -> 1516 [] diff = -1814 -> 1517 [] diff = -1754 -> 1519
      [] diff = -1748 -> 1520 [] diff = -1747 -> 1520 [] diff = -1742 -> 1520
      [] diff = -1733 -> 1520 [] diff = -1674 -> 1523 [] diff = -1673 -> 1523
      [] diff = -1612 -> 1526 [] diff = -1604 -> 1526 [] diff = -1600 -> 1526
      [] diff = -1594 -> 1527 [] diff = -1593 -> 1527 [] diff = -1527 -> 1530
      [] diff = -1526 -> 1530 [] diff = -1467 -> 1532 [] diff = -1458 -> 1533
      [] diff = -1453 -> 1533 [] diff = -1452 -> 1533 [] diff = -1446 -> 1533
      [] diff = -1379 -> 1537 [] diff = -1313 -> 1540 [] diff = -1175 -> 1546
      [] diff = -1094 -> 1550 [] diff = -1026 -> 1553 [] diff = -427 -> 1580
      [] diff = -294 -> 1586 [] diff = -226 -> 1590 [] diff = -224 -> 1590
      [] diff = -221 -> 1590 [] diff = -218 -> 1590 [] diff = -148 -> 1593
      [] diff = -147 -> 1593 [] diff = -74 -> 1597 [] diff = -73 -> 1597
      [] diff = -6 -> 1600 [] diff = -2 -> 1600 [] diff = 0 -> 1600
      [] diff = 2 -> 1600 [] diff = 6 -> 1600 [] diff = 73 -> 1603
      [] diff = 74 -> 1603 [] diff = 147 -> 1607 [] diff = 148 -> 1607
      [] diff = 218 -> 1610 [] diff = 221 -> 1610 [] diff = 224 -> 1610
      [] diff = 226 -> 1610 [] diff = 294 -> 1614 [] diff = 427 -> 1620
      [] diff = 1026 -> 1647 [] diff = 1094 -> 1650 [] diff = 1175 -> 1654
      [] diff = 1313 -> 1660 [] diff = 1379 -> 1663 [] diff = 1446 -> 1667
      [] diff = 1452 -> 1667 [] diff = 1453 -> 1667 [] diff = 1458 -> 1667
      [] diff = 1467 -> 1668 [] diff = 1526 -> 1670 [] diff = 1527 -> 1670
      [] diff = 1593 -> 1673 [] diff = 1594 -> 1673 [] diff = 1600 -> 1674
      [] diff = 1604 -> 1674 [] diff = 1612 -> 1674 [] diff = 1673 -> 1677
      [] diff = 1674 -> 1677 [] diff = 1733 -> 1680 [] diff = 1742 -> 1680
      [] diff = 1747 -> 1680 [] diff = 1748 -> 1680 [] diff = 1754 -> 1681
      [] diff = 1814 -> 1683 [] diff = 1821 -> 1684 [] diff = 1887 -> 1687
      [] diff = 2350 -> 1708 [] diff = 2836 -> 1730 [] diff = 2906 -> 1734
      [] diff = 2913 -> 1734 [] diff = 2934 -> 1735 [] diff = 2976 -> 1737
      [] diff = 2979 -> 1737 [] diff = 3052 -> 1740 [] diff = 3053 -> 1740
      [] diff = 3055 -> 1740 [] diff = 3067 -> 1741 [] diff = 3123 -> 1743
      [] diff = 3126 -> 1744 [] diff = 3127 -> 1744 [] diff = 3132 -> 1744
      [] diff = 3198 -> 1747 [] diff = 3200 -> 1747 [] diff = 3206 -> 1747
      [] diff = 3268 -> 1750 [] diff = 3273 -> 1750 [] diff = 3274 -> 1750
      [] diff = 3333 -> 1753 [] diff = 3347 -> 1754 [] diff = 3348 -> 1754
      [] diff = 3418 -> 1757 [] diff = 3466 -> 1759 [] diff = 4366 -> 1800
      [] diff = 4375 -> 1800 [] diff = 4579 -> 1810 [] diff = 4586 -> 1810
      [] diff = 4652 -> 1813 [] diff = 4653 -> 1813 [] diff = 4726 -> 1816
      [] diff = 4727 -> 1816 [] diff = 4788 -> 1819 [] diff = 4793 -> 1819
      [] diff = 4794 -> 1819 [] diff = 4800 -> 1820 [] diff = 4804 -> 1820
      [] diff = 4874 -> 1823 [] diff = 5973 -> 1872 [] diff = 6036 -> 1875
      [] diff = 6106 -> 1878 [] diff = 6113 -> 1879 [] diff = 6174 -> 1881
      [] diff = 6179 -> 1882 [] diff = 6252 -> 1885 [] diff = 6253 -> 1885
      [] diff = 6255 -> 1885 [] diff = 6323 -> 1888 [] diff = 6326 -> 1888
      [] diff = 6400 -> 1891 [] diff = 7426 -> 1937 [] diff = 7494 -> 1940
      [] diff = 7566 -> 1943 [] diff = 8750 -> 1995

\* calculate_elo_update without the expected score: the winner gains, and the
\* loser loses, 16.0 whatever the two ratings
calculate_elo_update_FixedGain(winner_rating, loser_rating) ==
    << winner_rating + 1600, loser_rating - 1600 >>

\* calculate_elo_update with k_factor 16: half the gain
calculate_elo_update_HalfKFactor(winner_rating, loser_rating) ==
    LET gain == EloGain(loser_rating - winner_rating) \div 2
    IN  << winner_rating + gain, loser_rating - gain >>

\* (new_winner_rating, new_loser_rating)
calculate_elo_update(winner_rating, loser_rating) ==
    LET gain == EloGain(loser_rating - winner_rating)
    IN  << winner_rating + gain, loser_rating - gain >>

SelectRating(store, category_id, item_id) ==
    { r \in store.elo_ratings :
        r.category_id = category_id /\ r.item_id = item_id }

\* EloService.get_or_create_rating: the store after the call (the new row
\* flushed), or the IntegrityError of the flush
get_or_create_rating(store, category_id, item_id) ==
    LET row == [ category_id |-> category_id, item_id |-> item_id,
                 rating |-> initial_rating, games_played |-> 0 ]
    IN  IF SelectRating(store, category_id, item_id) # {}
        THEN [ ok |-> TRUE, store |-> store ]
        ELSE IF uq_elo_per_item(store.elo_ratings, row)
        THEN [ ok |-> FALSE, store |-> store ]
        ELSE [ ok |-> TRUE,
               store |-> [ store EXCEPT !.elo_ratings = @ \cup {row} ] ]

\* SetRating that counts the game on the item's row of every category
SetRating_EveryCategory(store, category_id, item_id, rating) ==
    [ store EXCEPT !.elo_ratings =
        { IF r.item_id = item_id
          THEN [ r EXCEPT !.rating = IF r.category_id = category_id
                                     THEN rating ELSE @,
                          !.games_played = @ + 1 ]
          ELSE r : r \in @ } ]

\* the attribute writes of record_match on the row of item_id
SetRating(store, category_id, item_id, rating) ==
    [ store EXCEPT !.elo_ratings =
        { IF r.category_id = category_id /\ r.item_id = item_id
          THEN [ r EXCEPT !.rating = rating, !.games_played = @ + 1 ]
          ELSE r : r \in @ } ]

\* EloService.record_match
record_match(store, category_id, winner_id, loser_id) ==
    LET w == get_or_create_rating(store, category_id, winner_id)
        l == get_or_create_rating(w.store, category_id, loser_id)
        winner == CHOOSE r \in SelectRating(l.store, category_id, winner_id) : TRUE
        loser == CHOOSE r \in SelectRating(l.store, category_id, loser_id) : TRUE
        new == calculate_elo_update(winner.rating, loser.rating)
    IN  IF ~w.ok THEN [ ok |-> FALSE, store |-> store ]
        ELSE IF ~l.ok THEN [ ok |-> FALSE, store |-> store ]
        ELSE [ ok |-> TRUE,
               store |-> SetRating(SetRating(l.store, category_id, winner_id, new[1]),
                                   category_id, loser_id, new[2]),
               ratings |-> new ]

-----------------------------------------------------------------------------
(* routes/votes.py: responses *)

\* raise HTTPException(status_code, detail); detail is the message without the
\* values the code interpolates into it (an item id, a tier index, the reason)
HTTPException(status_code, detail) ==
    [ status |-> status_code, detail |-> detail, vote_id |-> None ]

\* an exception no handler catches: the framework answers 500
ServerError(exception) ==
    [ status |-> 500, detail |-> exception, vote_id |-> None ]

\* VoteResponse(success=True, vote_id, message)
VoteResponse(vote_id, message) ==
    [ status |-> 200, detail |-> message, vote_id |-> Some(vote_id) ]

\* connections.get_db_session closes the session of a request that raised:
\* the rows flushed but not committed are gone, the id sequence stays advanced
Rollback(committed, working) ==
    [ committed EXCEPT !.vote_id_seq = working.vote_id_seq ]

\* choices[::2]
EveryOther(choices) ==
    [ i \in 1..((Len(choices) + 1) \div 2) |-> choices[2 * i - 1] ]

\* tier_options = settings.get("tier_options", []);
\* num_tiers = len(tier_options) if tier_options else 7
num_tiers(settings) ==
    LET tier_options == IF "tier_options" \in DOMAIN settings
                        THEN settings.tier_options ELSE << >>
    IN  IF tier_options # << >> THEN Len(tier_options) ELSE 7

-----------------------------------------------------------------------------
(* routes/votes.py: submit_vote, lines 39-73 *)

\* Variant: submit_vote_admit with the Vote row saved before the category is found inactive
submit_vote_admit_SavesBeforeActiveCheck(store, rds, q, fault) ==
    LET id == get_vote_identity(q.ip, q.fingerprint)
        check == check_suspicious_patterns(rds, id.ip_hash, id.fingerprint_hash, fault)
        reject(response, r) ==
            [ admitted |-> FALSE, response |-> response, redis |-> r, store |-> store ]
        vote == [ id |-> store.vote_id_seq + 1, category_id |-> q.category_id,
                  fingerprint_hash |-> id.fingerprint_hash, ip_hash |-> id.ip_hash ]
        saved == [ store EXCEPT !.vote_id_seq = vote.id, !.votes = @ \cup {vote} ]
    IN  IF ~FingerprintValid[q.fingerprint]
        THEN reject(HTTPException(400, "Invalid fingerprint format"), rds)
        ELSE IF check.is_suspicious
        THEN reject(HTTPException(429, "Suspicious activity"), check.redis)
        ELSE IF q.category_id \notin DOMAIN store.categories
        THEN reject(HTTPException(404, "Category not found"), check.redis)
        ELSE IF ~store.categories[q.category_id].is_active
        THEN [ admitted |-> FALSE, redis |-> check.redis, store |-> saved,
               response |-> HTTPException(400, "Category is not active") ]
        ELSE IF SelectVote(store, q.category_id, id.fingerprint_hash) # {}
        THEN reject(HTTPException(409, "Already voted in this category"), check.redis)
        ELSE [ admitted |-> TRUE, response |-> None, redis |-> check.redis,
               store |-> store ]

\* Variant: submit_vote_admit without the prior-vote SELECT of lines 65-73
submit_vote_admit_NoPriorVoteCheck(store, rds, q, fault) ==
    LET id == get_vote_identity(q.ip, q.fingerprint)
        check == check_suspicious_patterns(rds, id.ip_hash, id.fingerprint_hash, fault)
        reject(response, r) ==
            [ admitted |-> FALSE, response |-> response, redis |-> r, store |-> store ]
    IN  IF ~FingerprintValid[q.fingerprint]
        THEN reject(HTTPException(400, "Invalid fingerprint format"), rds)
        ELSE IF check.is_suspicious
        THEN reject(HTTPException(429, "Suspicious activity"), check.redis)
        ELSE IF q.category_id \notin DOMAIN store.categories
        THEN reject(HTTPException(404, "Category not found"), check.redis)
        ELSE IF ~store.categories[q.category_id].is_active
        THEN reject(HTTPException(400, "Category is not active"), check.redis)
        ELSE [ admitted |-> TRUE, response |-> None, redis |-> check.redis,
               store |-> store ]

\* Variant: submit_vote_admit with the prior vote looked up by the address
\* (ip_hash) of the client
submit_vote_admit_DedupByIp(store, rds, q, fault) ==
    LET id == get_vote_identity(q.ip, q.fingerprint)
        check == check_suspicious_patterns(rds, id.ip_hash, id.fingerprint_hash, fault)
        reject(response, r) ==
            [ admitted |-> FALSE, response |-> response, redis |-> r, store |-> store ]
    IN  IF ~FingerprintValid[q.fingerprint]
        THEN reject(HTTPException(400, "Invalid fingerprint format"), rds)
        ELSE IF check.is_suspicious
        THEN reject(HTTPException(429, "Suspicious activity"), check.redis)
        ELSE IF q.category_id \notin DOMAIN store.categories
        THEN reject(HTTPException(404, "Category not found"), check.redis)
        ELSE IF ~store.categories[q.category_id].is_active
        THEN reject(HTTPException(400, "Category is not active"), check.redis)
        ELSE IF \E v \in store.votes : /\ v.category_id = q.category_id
                                       /\ v.ip_hash = id.ip_hash
        THEN reject(HTTPException(409, "Already voted in this category"), check.redis)
        ELSE [ admitted |-> TRUE, response |-> None, redis |-> check.redis,
               store |-> store ]

\* The request up to the prior-vote SELECT, lines 39-73: admitted (suspended
\* before line 75) or answered; store is what the session leaves committed
submit_vote_admit(store, rds, q, fault) ==
    LET id == get_vote_identity(q.ip, q.fingerprint)
        check == check_suspicious_patterns(rds, id.ip_hash, id.fingerprint_hash, fault)
        reject(response, r) ==
            [ admitted |-> FALSE, response |-> response, redis |-> r, store |-> store ]
    IN  IF ~FingerprintValid[q.fingerprint]
        THEN reject(HTTPException(400, "Invalid fingerprint format"), rds)
        ELSE IF check.is_suspicious
        THEN reject(HTTPException(429, "Suspicious activity"), check.redis)
        ELSE IF q.category_id \notin DOMAIN store.categories
        THEN reject(HTTPException(404, "Category not found"), check.redis)
        ELSE IF ~store.categories[q.category_id].is_active
        THEN reject(HTTPException(400, "Category is not active"), check.redis)
        ELSE IF SelectVote(store, q.category_id, id.fingerprint_hash) # {}
        THEN reject(HTTPException(409, "Already voted in this category"), check.redis)
        ELSE [ admitted |-> TRUE, response |-> None, redis |-> check.redis,
               store |-> store ]

-----------------------------------------------------------------------------
(* routes/votes.py: submit_vote, lines 75-199 *)

\* lines 89-94: some item id checked is no item of the category
ItemNotValid(item_ids_to_check, valid_item_ids) ==
    \E i \in 1..Len(item_ids_to_check) : item_ids_to_check[i] \notin valid_item_ids

\* lines 96-141: the detail of the HTTPException the count/shape rule of the
\* mode raises, or None
ChoiceShapeError(category, choices) ==
    IF category.comparison_mode = ComparisonMode.SINGLE_CHOICE
    THEN IF Len(choices) # 1
         THEN Some("Single choice mode requires exactly one choice")
         ELSE None
    ELSE IF category.comparison_mode = ComparisonMode.ELO_TOURNAMENT
    THEN IF Len(choices) # 2
         THEN Some("ELO tournament mode requires exactly two choices (winner, loser)")
         ELSE IF choices[1] = choices[2]
         THEN Some("Winner and loser must be different items")
         ELSE None
    ELSE IF category.comparison_mode = ComparisonMode.RANKED_LIST
    THEN IF Len(choices) < 2
         THEN Some("Ranked list mode requires at least two choices")
         ELSE None
    ELSE IF category.comparison_mode = ComparisonMode.TOURNAMENT_TIERS
    THEN IF Len(choices) % 2 # 0
         THEN Some("Tournament tiers mode requires pairs of (item_id, tier_index)")
         ELSE IF Len(choices) < 2
         THEN Some("Tournament tiers mode requires at least one vote")
         ELSE IF \E i \in 1..(Len(choices) \div 2) :
                    \/ choices[2 * i] < 0
                    \/ choices[2 * i] >= num_tiers(category.settings)
         THEN Some("Invalid tier index")
         ELSE None
    ELSE None

\* lines 152-171: the VoteChoice rows added to the session, in order
NewChoices(category, vote_id, choices) ==
    IF category.comparison_mode = ComparisonMode.TOURNAMENT_TIERS
    THEN [ i \in 1..(Len(choices) \div 2) |->
             [ vote_id |-> vote_id, item_id |-> choices[2 * i - 1],
               rank |-> Some(choices[2 * i]) ] ]
    ELSE [ i \in 1..Len(choices) |->
             [ vote_id |-> vote_id, item_id |-> choices[i],
               rank |-> IF category.comparison_mode = ComparisonMode.RANKED_LIST
                        THEN Some(i) ELSE NoRank ] ]

\* lines 143-199: the transaction of a validated submission
submit_vote_write(store, rds, e, category, choices, comment, fault) ==
    LET vote_id == store.vote_id_seq + 1
        vote == [ id |-> vote_id, category_id |-> e.category_id,
                  fingerprint_hash |-> e.fingerprint_hash, ip_hash |-> e.ip_hash ]
        s0 == [ store EXCEPT !.vote_id_seq = vote_id ]
        s1 == [ s0 EXCEPT !.votes = @ \cup {vote} ]
        pending == NewChoices(category, vote_id, choices)
        s2 == [ s1 EXCEPT !.vote_choices = @ \cup Range(pending) ]
        elo == IF category.comparison_mode = ComparisonMode.ELO_TOURNAMENT
               THEN record_match(s2, category.id, choices[1], choices[2])
               ELSE [ ok |-> TRUE, store |-> s2 ]
        s3 == IF comment # None /\ comment[1] # ""
              THEN [ elo.store EXCEPT !.comments = @ \cup
                       { [ vote_id |-> vote_id, content |-> comment[1],
                           is_approved |-> FALSE ] } ]
              ELSE elo.store
        failed == [ store |-> Rollback(store, s0), redis |-> rds,
                    response |-> ServerError("IntegrityError") ]
    IN  IF uq_vote_per_fingerprint(store.votes, vote) THEN failed
        ELSE IF uq_choice_per_vote(s1.vote_choices, pending) THEN failed
        ELSE IF ~elo.ok THEN failed
        ELSE [ store |-> s3,
               redis |-> record_vote_attempt(rds, e.ip_hash, e.fingerprint_hash,
                                             e.category_id, TRUE, fault),
               response |-> VoteResponse(vote_id, "Vote recorded successfully") ]

\* lines 75-141, then the transaction; e is the suspended request
submit_vote_persist(store, rds, e, choices, comment, fault) ==
    LET category == [ id |-> e.category_id ] @@ store.categories[e.category_id]
        answer(response) == [ store |-> store, redis |-> rds, response |-> response ]
    IN  IF ~HasMember("TOURNAMENT_TIERS")
        THEN answer(ServerError("AttributeError"))
        ELSE
          LET item_ids_to_check ==
                  IF category.comparison_mode = ComparisonMode.TOURNAMENT_TIERS
                  THEN EveryOther(choices) ELSE choices
              shape == ChoiceShapeError(category, choices)
          IN  IF ItemNotValid(item_ids_to_check, ValidItemIds(store, e.category_id))
              THEN answer(HTTPException(400, "Item is not valid for this category"))
              ELSE IF shape # None
              THEN answer(HTTPException(400, shape[1]))
              ELSE submit_vote_write(store, rds, e, category, choices, comment, fault)

-----------------------------------------------------------------------------
(* routes/votes.py: upsert_vote, lines 243-347 *)

\* lines 322-347: find, create or update the VoteChoice of item_id, and commit
upsert_choice(committed, store, rds, vote_id, item_id, tier_index) ==
    LET existing == { c \in store.vote_choices :
                        c.vote_id = vote_id /\ c.item_id = item_id }
        row == [ vote_id |-> vote_id, item_id |-> item_id, rank |-> Some(tier_index) ]
        written == IF existing = {}
                   THEN [ store EXCEPT !.vote_choices = @ \cup {row} ]
                   ELSE [ store EXCEPT !.vote_choices = (@ \ existing) \cup {row} ]
    IN  IF existing = {} /\ uq_choice_per_vote(store.vote_choices, << row >>)
        THEN [ store |-> Rollback(committed, store), redis |-> rds,
               response |-> ServerError("IntegrityError") ]
        ELSE [ store |-> written, redis |-> rds,
               response |-> VoteResponse(vote_id, "Vote saved") ]

\* lines 295-347: find or create the Vote, then the choice
upsert_vote_write(store, rds, q, id, item_id, tier_index, fault) ==
    LET existing_vote == SelectVote(store, q.category_id, id.fingerprint_hash)
        check == check_suspicious_patterns(rds, id.ip_hash, id.fingerprint_hash, fault)
        vote_id == store.vote_id_seq + 1
        vote == [ id |-> vote_id, category_id |-> q.category_id,
                  fingerprint_hash |-> id.fingerprint_hash, ip_hash |-> id.ip_hash ]
        s0 == [ store EXCEPT !.vote_id_seq = vote_id ]
        s1 == [ s0 EXCEPT !.votes = @ \cup {vote} ]
    IN  IF existing_vote # {}
        THEN upsert_choice(store, store, rds,
                           (CHOOSE v \in existing_vote : TRUE).id, item_id, tier_index)
        ELSE IF check.is_suspicious
        THEN [ store |-> store, redis |-> check.redis,
               response |-> HTTPException(429, "Suspicious activity") ]
        ELSE IF uq_vote_per_fingerprint(store.votes, vote)
        THEN [ store |-> Rollback(store, s0), redis |-> check.redis,
               response |-> ServerError("IntegrityError") ]
        ELSE upsert_choice(store, s1, check.redis, vote_id, item_id, tier_index)

\* the whole handler: q is the request, choices its payload
upsert_vote(store, rds, q, choices, fault) ==
    LET id == get_vote_identity(q.ip, q.fingerprint)
        answer(response) == [ store |-> store, redis |-> rds, response |-> response ]
    IN  IF ~FingerprintValid[q.fingerprint]
        THEN answer(HTTPException(400, "Invalid fingerprint format"))
        ELSE IF q.category_id \notin DOMAIN store.categories
        THEN answer(HTTPException(404, "Category not found"))
        ELSE IF ~store.categories[q.category_id].is_active
        THEN answer(HTTPException(400, "Category is not active"))
        ELSE IF ~HasMember("TOURNAMENT_TIERS")
        THEN answer(ServerError("AttributeError"))
        ELSE IF store.categories[q.category_id].comparison_mode
                    # ComparisonMode.TOURNAMENT_TIERS
        THEN answer(HTTPException(400, "Upsert only supported for tournament_tiers mode"))
        ELSE IF Len(choices) # 2
        THEN answer(HTTPException(400, "Upsert requires exactly [item_id, tier_index]"))
        ELSE IF choices[1] \notin ValidItemIds(store, q.category_id)
        THEN answer(HTTPException(400, "Item is not valid for this category"))
        ELSE IF \/ choices[2] < 0
                \/ choices[2] >= num_tiers(store.categories[q.category_id].settings)
        THEN answer(HTTPException(400, "Invalid tier index"))
        ELSE upsert_vote_write(store, rds, q, id, choices[1], choices[2], fault)

-----------------------------------------------------------------------------
(* services/statistics.py and routes/results.py.  Percentages, interval    *)
(* bounds, ratings and averages are kept in hundredths: the code rounds    *)
(* each of them to two decimals.                                           *)

\* round(num / den, 2) in hundredths, for num >= 0 and den > 0 (no quotient of
\* the counts below falls on a rounding tie)
Round2(num, den) == (200 * num + den) \div (2 * den)

\* calculate_percentage(votes, total), rounded by its caller
calculate_percentage(votes, total) ==
    IF total = 0 THEN 0 ELSE Round2(100 * votes, total)

\* z = z_scores.get(confidence, 1.96), in thousandths; confidence in percent
z_score(confidence) ==
    CASE confidence = 90 -> 1645
      [] confidence = 95 -> 1960
      [] confidence = 99 -> 2576
      [] OTHER -> 1960

\* (lower, upper) in hundredths of a percent, as the code computes them in
\* floating point: WilsonSmall[z][total][successes + 1] for totals up to 7
WilsonSmall ==
    [ z \in { 1645, 1960, 2576 } |->
        CASE z = 1645 ->
            << << <<0, 7302>>, <<2698, 10000>> >>,
               << <<0, 5750>>, <<1209, 8791>>, <<4250, 10000>> >>,
               << <<0, 4742>>, <<783, 7465>>, <<2535, 9217>>, <<5258, 10000>> >>,
               << <<0, 4035>>, <<579, 6439>>, <<1824, 8176>>, <<3561, 9421>>, <<5965, 10000>> >>,
               << <<0, 3512>>, <<460, 5647>>, <<1427, 7275>>, <<2725, 8573>>, <<4353, 9540>>, <<6488, 10000>> >>,
               << <<0, 3108>>, <<381, 5024>>, <<1173, 6530>>, <<2212, 7788>>, <<3470, 8827>>, <<4976, 9619>>, <<6892, 10000>> >>,
               << <<0, 2788>>, <<325, 4523>>, <<996, 5914>>, <<1864, 7105>>, <<2895, 8136>>, <<4086, 9004>>, <<5477, 9675>>, <<7212, 10000>> >> >>
          [] z = 1960 ->
            << << <<0, 7935>>, <<2065, 10000>> >>,
               << <<0, 6576>>, <<945, 9055>>, <<3424, 10000>> >>,
               << <<0, 5615>>, <<615, 7923>>, <<2077, 9385>>, <<4385, 10000>> >>,
               << <<0, 4899>>, <<456, 6994>>, <<1500, 8500>>, <<3006, 9544>>, <<5101, 10000>> >>,
               << <<0, 4345>>, <<362, 6245>>, <<1176, 7693>>, <<2307, 8824>>, <<3755, 9638>>, <<5655, 10000>> >>,
               << <<0, 3903>>, <<301, 5635>>, <<968, 7000>>, <<1876, 8124>>, <<3000, 9032>>, <<4365, 9699>>, <<6097, 10000>> >>,
               << <<0, 3543>>, <<257, 5131>>, <<822, 6411>>, <<1582, 7495>>, <<2505, 8418>>, <<3589, 9178>>, <<4869, 9743>>, <<6457, 10000>> >> >>
          [] z = 2576 ->
            << << <<0, 8690>>, <<1310, 10000>> >>,
               << <<0, 7684>>, <<617, 9383>>, <<2316, 10000>> >>,
               << <<0, 6887>>, <<404, 8558>>, <<1442, 9596>>, <<3113, 10000>> >>,
               << <<0, 6239>>, <<301, 7819>>, <<1051, 8949>>, <<2181, 9699>>, <<3761, 10000>> >>,
               << <<0, 5703>>, <<239, 7182>>, <<827, 8314>>, <<1686, 9173>>, <<2818, 9761>>, <<4297, 10000>> >>,
               << <<0, 5252>>, <<199, 6636>>, <<682, 7735>>, <<1377, 8623>>, <<2265, 9318>>, <<3364, 9801>>, <<4748, 10000>> >>,
               << <<0, 4866>>, <<170, 6163>>, <<580, 7219>>, <<1164, 8103>>, <<1897, 8836>>, <<2781, 9420>>, <<3837, 9830>>, <<5134, 10000>> >> >> ]

\* the same for the totals 1000, 120000 and 200000, with none, one, half, all
\* but one and all of the votes for the item
WilsonLarge(z, successes, total) ==
    CASE z = 1645 /\ total = 1000 /\ successes = 0 -> << 0, 27 >>
      [] z = 1645 /\ total = 1000 /\ successes = 1 -> << 2, 45 >>
      [] z = 1645 /\ total = 1000 /\ successes = 500 -> << 4740, 5260 >>
      [] z = 1645 /\ total = 1000 /\ successes = 999 -> << 9955, 9998 >>
      [] z = 1645 /\ total = 1000 /\ successes = 1000 -> << 9973, 10000 >>
      [] z = 1645 /\ total = 120000 /\ successes = 0 -> << 0, 0 >>
      [] z = 1645 /\ total = 120000 /\ successes = 1 -> << 0, 0 >>
      [] z = 1645 /\ total = 120000 /\ successes = 60000 -> << 4976, 5024 >>
      [] z = 1645 /\ total = 120000 /\ successes = 119999 -> << 10000, 10000 >>
      [] z = 1645 /\ total = 120000 /\ successes = 120000 -> << 10000, 10000 >>
      [] z = 1645 /\ total = 200000 /\ successes = 0 -> << 0, 0 >>
      [] z = 1645 /\ total = 200000 /\ successes = 1 -> << 0, 0 >>
      [] z = 1645 /\ total = 200000 /\ successes = 100000 -> << 4982, 5018 >>
      [] z = 1645 /\ total = 200000 /\ successes = 199999 -> << 10000, 10000 >>
      [] z = 1645 /\ total = 200000 /\ successes = 200000 -> << 10000, 10000 >>
      [] z = 1960 /\ total = 1000 /\ successes = 0 -> << 0, 38 >>
      [] z = 1960 /\ total = 1000 /\ successes = 1 -> << 2, 56 >>
      [] z = 1960 /\ total = 1000 /\ successes = 500 -> << 4691, 5309 >>
      [] z = 1960 /\ total = 1000 /\ successes = 999 -> << 9944, 9998 >>
      [] z = 1960 /\ total = 1000 /\ successes = 1000 -> << 9962, 10000 >>
      [] z = 1960 /\ total = 120000 /\ successes = 0 -> << 0, 0 >>
      [] z = 1960 /\ total = 120000 /\ successes = 1 -> << 0, 0 >>
      [] z = 1960 /\ total = 120000 /\ successes = 60000 -> << 4972, 5028 >>
      [] z = 1960 /\ total = 120000 /\ successes = 119999 -> << 10000, 10000 >>
      [] z = 1960 /\ total = 120000 /\ successes = 120000 -> << 10000, 10000 >>
      [] z = 1960 /\ total = 200000 /\ successes = 0 -> << 0, 0 >>
      [] z = 1960 /\ total = 200000 /\ successes = 1 -> << 0, 0 >>
      [] z = 1960 /\ total = 200000 /\ successes = 100000 -> << 4978, 5022 >>
      [] z = 1960 /\ total = 200000 /\ successes = 199999 -> << 10000, 10000 >>
      [] z = 1960 /\ total = 200000 /\ successes = 200000 -> << 10000, 10000 >>
      [] z = 2576 /\ total = 1000 /\ successes = 0 -> << 0, 66 >>
      [] z = 2576 /\ total = 1000 /\ successes = 1 -> << 1, 85 >>
      [] z = 2576 /\ total = 1000 /\ successes = 500 -> << 4594, 5406 >>
      [] z = 2576 /\ total = 1000 /\ successes = 999 -> << 9915, 9999 >>
      [] z = 2576 /\ total = 1000 /\ successes = 1000 -> << 9934, 10000 >>
      [] z = 2576 /\ total = 120000 /\ successes = 0 -> << 0, 1 >>
      [] z = 2576 /\ total = 120000 /\ successes = 1 -> << 0, 1 >>
      [] z = 2576 /\ total = 120000 /\ successes = 60000 -> << 4963, 5037 >>
      [] z = 2576 /\ total = 120000 /\ successes = 119999 -> << 9999, 10000 >>
      [] z = 2576 /\ total = 120000 /\ successes = 120000 -> << 9999, 10000 >>
      [] z = 2576 /\ total = 200000 /\ successes = 0 -> << 0, 0 >>
      [] z = 2576 /\ total = 200000 /\ successes = 1 -> << 0, 0 >>
      [] z = 2576 /\ total = 200000 /\ successes = 100000 -> << 4971, 5029 >>
      [] z = 2576 /\ total = 200000 /\ successes = 199999 -> << 10000, 10000 >>
      [] z = 2576 /\ total = 200000 /\ successes = 200000 -> << 10000, 10000 >>

\* wilson_confidence_interval(successes, total, confidence): (lower, upper)
\* rounded to two decimals, in hundredths of a percent
wilson_confidence_interval(successes, total, confidence) ==
    IF total = 0 THEN << 0, 0 >>
    ELSE LET z == z_score(confidence)
         IN  IF total <= Len(WilsonSmall[z])
             THEN WilsonSmall[z][total][successes + 1]
             ELSE WilsonLarge(z, successes, total)

\* sum of the values of a bag of integers
RECURSIVE BagSum(_)
BagSum(b) ==
    IF b = EmptyBag THEN 0
    ELSE LET x == CHOOSE y \in BagToSet(b) : TRUE
         IN  x + BagSum(b (-) SetToBag({ x }))

\* calculate_average_rank that returns the best (lowest) rank instead of the mean
calculate_average_rank_Lowest(rankings) ==
    IF rankings = EmptyBag THEN None
    ELSE Some(100 * (CHOOSE r \in BagToSet(rankings) :
                       \A x \in BagToSet(rankings) : r <= x))

\* calculate_average_rank(rankings): rankings is the bag of the ranks
calculate_average_rank(rankings) ==
    IF rankings = EmptyBag THEN None
    ELSE Some(Round2(BagSum(rankings), BagCardinality(rankings)))

\* list.sort(key=...): the records in ascending order of keys[i], records of
\* equal key in the order they had (reverse=True keeps that order too)
SortedBy(records, keys) ==
    LET n == Len(records)
        place(i) == Cardinality({ j \in 1..n :
                        \/ keys[j] < keys[i]
                        \/ keys[j] = keys[i] /\ j < i }) + 1
    IN  [ p \in 1..n |-> records[CHOOSE i \in 1..n : place(i) = p] ]

\* The order in which category.category_items is loaded (results.py lines
\* 40-45, 77-79): the relationship has no order_by, the rows come as the table
\* stores them, which for category 3 is not the order of the item ids
CategoryItemOrder ==
    [ c \in DOMAIN Categories |->
        IF c = 3 THEN << 2, 1, 3 >> ELSE << 1, 2, 3 >> ]

\* items_by_id, lines 77-79: the ids of the category's items, in dict order
items_by_id(store, category_id) ==
    SelectSeq(CategoryItemOrder[category_id],
              LAMBDA i : i \in ValidItemIds(store, category_id))

\* the VoteChoice rows joined to the votes of the category
ChoicesOf(store, category_id) ==
    { c \in store.vote_choices :
        \E v \in store.votes : v.id = c.vote_id /\ v.category_id = category_id }

\* the bag of the ranks of an item's VoteChoice rows that have one
RanksOf(store, category_id, item_id) ==
    LET rows == { c \in ChoicesOf(store, category_id) :
                    c.item_id = item_id /\ c.rank # NoRank }
        ranks == { c.rank[1] : c \in rows }
    IN  [ r \in ranks |-> Cardinality({ c \in rows : c.rank[1] = r }) ]

\* float("inf") as a sort key: above every average in hundredths
Infinity == 2147483647

\* Variant: _calculate_single_choice_results whose count query has no GROUP BY
\* item_id, so that every item gets the count of all choices of the category
_calculate_single_choice_results_NoGroupBy(store, category_id, items, total_votes) ==
    LET result(item_id) ==
            LET vote_count == Cardinality(ChoicesOf(store, category_id))
                wilson == wilson_confidence_interval(vote_count, total_votes, 95)
            IN  [ item_id |-> item_id,
                  vote_count |-> vote_count,
                  percentage |-> calculate_percentage(vote_count, total_votes),
                  wilson_lower |-> Some(wilson[1]),
                  wilson_upper |-> Some(wilson[2]),
                  elo_rating |-> None, games_played |-> None,
                  average_rank |-> None, metadata |-> None ]
        results == [ i \in 1..Len(items) |-> result(items[i]) ]
    IN  SortedBy(results, [ i \in 1..Len(items) |-> 0 - results[i].percentage ])

\* _calculate_single_choice_results, lines 108-144
_calculate_single_choice_results(store, category_id, items, total_votes) ==
    LET result(item_id) ==
            LET vote_count == Cardinality({ c \in ChoicesOf(store, category_id) :
                                              c.item_id = item_id })
                wilson == wilson_confidence_interval(vote_count, total_votes, 95)
            IN  [ item_id |-> item_id,
                  vote_count |-> vote_count,
                  percentage |-> calculate_percentage(vote_count, total_votes),
                  wilson_lower |-> Some(wilson[1]),
                  wilson_upper |-> Some(wilson[2]),
                  elo_rating |-> None, games_played |-> None,
                  average_rank |-> None, metadata |-> None ]
        results == [ i \in 1..Len(items) |-> result(items[i]) ]
    IN  SortedBy(results, [ i \in 1..Len(items) |-> 0 - results[i].percentage ])

\* _calculate_elo_results, lines 147-191
_calculate_elo_results(store, category_id, items) ==
    LET ratings == { r \in store.elo_ratings : r.category_id = category_id }
        games == [ g \in { r.games_played : r \in ratings } |->
                     Cardinality({ r \in ratings : r.games_played = g }) ]
        total_games == BagSum(games) \div 2
        result(item_id) ==
            LET rating == { r \in ratings : r.item_id = item_id }
                row == CHOOSE r \in rating : TRUE
                games_played == IF rating # {} THEN row.games_played ELSE 0
                elo_rating == IF rating # {} THEN row.rating ELSE initial_rating
            IN  [ item_id |-> item_id,
                  vote_count |-> games_played,
                  percentage |-> IF total_games # 0
                                 THEN calculate_percentage(games_played,
                                                           total_games * 2)
                                 ELSE 0,
                  wilson_lower |-> None, wilson_upper |-> None,
                  elo_rating |-> Some(elo_rating),
                  games_played |-> Some(games_played),
                  average_rank |-> None, metadata |-> None ]
        results == [ i \in 1..Len(items) |-> result(items[i]) ]
    IN  SortedBy(results, [ i \in 1..Len(items) |-> 0 - results[i].elo_rating[1] ])

\* _calculate_ranked_results, lines 194-236
_calculate_ranked_results(store, category_id, items, total_votes) ==
    LET result(item_id) ==
            LET ranks == RanksOf(store, category_id, item_id)
                first_place_count == IF 1 \in DOMAIN ranks THEN ranks[1] ELSE 0
            IN  [ item_id |-> item_id,
                  vote_count |-> BagCardinality(ranks),
                  percentage |-> calculate_percentage(first_place_count, total_votes),
                  wilson_lower |-> None, wilson_upper |-> None,
                  elo_rating |-> None, games_played |-> None,
                  average_rank |-> calculate_average_rank(ranks),
                  metadata |-> None ]
        results == [ i \in 1..Len(items) |-> result(items[i]) ]
        \* key=lambda x: x.average_rank or float("inf")
        key(r) == IF r.average_rank = None \/ r.average_rank[1] = 0
                  THEN Infinity ELSE r.average_rank[1]
    IN  SortedBy(results, [ i \in 1..Len(items) |-> key(results[i]) ])

\* _calculate_tournament_tiers_results, lines 239-301
_calculate_tournament_tiers_results(store, category_id, items, total_votes, settings) ==
    LET tier_options == IF "tier_options" \in DOMAIN settings
                        THEN settings.tier_options
                        ELSE << "X", "S+", "S", "A", "B", "C", "D" >>
        result(item_id) ==
            LET tiers == RanksOf(store, category_id, item_id)
                tier_counts(idx) == IF idx \in DOMAIN tiers THEN tiers[idx] ELSE 0
                \* a name listed twice keeps the count of its last index
                tier_distribution ==
                    [ name \in Range(tier_options) |->
                        tier_counts((CHOOSE i \in 1..Len(tier_options) :
                                        /\ tier_options[i] = name
                                        /\ \A j \in 1..Len(tier_options) :
                                               tier_options[j] = name => j <= i)
                                    - 1) ]
                known_tiers == [ t \in { x \in DOMAIN tiers :
                                           x < Len(tier_options) - 1 } |-> tiers[t] ]
            IN  [ item_id |-> item_id,
                  vote_count |-> BagCardinality(tiers),
                  percentage |-> calculate_percentage(BagCardinality(tiers),
                                                      total_votes),
                  wilson_lower |-> None, wilson_upper |-> None,
                  elo_rating |-> None, games_played |-> None,
                  average_rank |-> calculate_average_rank(known_tiers),
                  metadata |-> Some([ tier_distribution |-> tier_distribution ]) ]
        results == [ i \in 1..Len(items) |-> result(items[i]) ]
        \* key=lambda x: x.average_rank if x.average_rank is not None else float("inf")
        key(r) == IF r.average_rank = None THEN Infinity ELSE r.average_rank[1]
    IN  SortedBy(results, [ i \in 1..Len(items) |-> key(results[i]) ])

\* return ResultsResponse(...), lines 99-105
ResultsResponse(category_id, comparison_mode, total_votes, results) ==
    [ status |-> 200, detail |-> "", vote_id |-> None,
      body |-> Some([ category_id |-> category_id,
                      comparison_mode |-> comparison_mode,
                      total_votes |-> total_votes,
                      results |-> results ]) ]

\* get_results, lines 39-105: the response; fingerprint is the query
\* parameter, or None
get_results_response(store, category_id, ip, fingerprint) ==
    LET category == store.categories[category_id]
        settings == category.settings
        private == "private_results" \in DOMAIN settings /\ settings.private_results
        total_votes == Cardinality({ v \in store.votes : v.category_id = category_id })
        items == items_by_id(store, category_id)
        answer(results) ==
            ResultsResponse(category_id, category.comparison_mode, total_votes, results)
    IN  IF category_id \notin DOMAIN store.categories
        THEN HTTPException(404, "Category not found")
        ELSE IF private /\ (fingerprint = None \/ ~FingerprintValid[fingerprint[1]])
        THEN HTTPException(403, "Results are private until you vote")
        ELSE IF private /\ SelectVote(store, category_id,
                               get_vote_identity(ip, fingerprint[1]).fingerprint_hash) = {}
        THEN HTTPException(403, "Results are private until you vote")
        ELSE IF category.comparison_mode = ComparisonMode.SINGLE_CHOICE
        THEN answer(_calculate_single_choice_results(store, category_id, items,
                                                     total_votes))
        ELSE IF category.comparison_mode = ComparisonMode.ELO_TOURNAMENT
        THEN answer(_calculate_elo_results(store, category_id, items))
        ELSE IF category.comparison_mode = ComparisonMode.RANKED_LIST
        THEN answer(_calculate_ranked_results(store, category_id, items, total_votes))
        ELSE IF ~HasMember("TOURNAMENT_TIERS")
        THEN ServerError("AttributeError")
        ELSE IF category.comparison_mode = ComparisonMode.TOURNAMENT_TIERS
        THEN answer(_calculate_tournament_tiers_results(store, category_id, items,
                                                        total_votes, settings))
        ELSE answer(<< >>)

\* Variant: get_results that obtains the ratings of an elo_tournament category
\* through EloService.get_or_create_rating, which adds the rows that are missing
get_results_CreatesRatings(store, category_id, ip, fingerprint) ==
    LET elo == /\ category_id \in DOMAIN store.categories
               /\ store.categories[category_id].comparison_mode
                      = ComparisonMode.ELO_TOURNAMENT
        missing == { i \in ValidItemIds(store, category_id) :
                       SelectRating(store, category_id, i) = {} }
    IN  [ store |-> IF elo
                    THEN [ store EXCEPT !.elo_ratings = @ \cup
                             { [ category_id |-> category_id, item_id |-> i,
                                 rating |-> initial_rating, games_played |-> 0 ] :
                               i \in missing } ]
                    ELSE store,
          response |-> get_results_response(store, category_id, ip, fingerprint) ]

\* get_results: the handler only reads, the session is closed without a commit
get_results(store, category_id, ip, fingerprint) ==
    [ store |-> store,
      response |-> get_results_response(store, category_id, ip, fingerprint) ]

-----------------------------------------------------------------------------
(* routes/votes.py: get_vote_status, lines 202-229 *)

\* VoteStatusResponse(has_voted, vote_id); voted_at, the row's created_at, is
\* left out: the model keeps no clock
VoteStatusResponse(has_voted, vote_id) ==
    [ status |-> 200, detail |-> "", vote_id |-> vote_id,
      body |-> Some([ has_voted |-> has_voted ]) ]

\* get_vote_status that looks the vote up by the address (ip_hash) of the client
get_vote_status_ByIp(store, q) ==
    LET id == get_vote_identity(q.ip, q.fingerprint)
        vote == { v \in store.votes :
                    v.category_id = q.category_id /\ v.ip_hash = id.ip_hash }
    IN  IF ~FingerprintValid[q.fingerprint]
        THEN HTTPException(400, "Invalid fingerprint format")
        ELSE IF vote # {}
        THEN VoteStatusResponse(TRUE, Some((CHOOSE v \in vote : TRUE).id))
        ELSE VoteStatusResponse(FALSE, None)

\* get_vote_status: the response; q is the request (category_id in the path,
\* fingerprint in the query)
get_vote_status(store, q) ==
    LET id == get_vote_identity(q.ip, q.fingerprint)
        vote == SelectVote(store, q.category_id, id.fingerprint_hash)
    IN  IF ~FingerprintValid[q.fingerprint]
        THEN HTTPException(400, "Invalid fingerprint format")
        ELSE IF vote # {}
        THEN VoteStatusResponse(TRUE, Some((CHOOSE v \in vote : TRUE).id))
        ELSE VoteStatusResponse(FALSE, None)

-----------------------------------------------------------------------------
(* routes/votes.py: submit_comment, lines 350-379 *)

\* return {"success": True, "message": "Comment submitted for approval"}
CommentSubmitted ==
    [ status |-> 200, detail |-> "", vote_id |-> None,
      body |-> Some([ success |-> TRUE,
                      message |-> "Comment submitted for approval" ]) ]

\* Variant: submit_comment without the SELECT of the existing comment, lines 364-369
submit_comment_NoExistingCheck(store, vote_id, content) ==
    LET comment == [ vote_id |-> vote_id, content |-> content, is_approved |-> FALSE ]
    IN  IF { v \in store.votes : v.id = vote_id } = {}
        THEN [ store |-> store, response |-> HTTPException(404, "Vote not found") ]
        ELSE [ store |-> [ store EXCEPT !.comments = @ \cup { comment } ],
               response |-> CommentSubmitted ]

\* the whole handler
submit_comment(store, vote_id, content) ==
    LET comment == [ vote_id |-> vote_id, content |-> content, is_approved |-> FALSE ]
    IN  IF { v \in store.votes : v.id = vote_id } = {}
        THEN [ store |-> store, response |-> HTTPException(404, "Vote not found") ]
        ELSE IF { c \in store.comments : c.vote_id = vote_id } # {}
        THEN [ store |-> store,
               response |-> HTTPException(409, "Comment already exists for this vote") ]
        ELSE IF uq_comment_vote_id(store.comments, comment)
        THEN [ store |-> store, response |-> ServerError("IntegrityError") ]
        ELSE [ store |-> [ store EXCEPT !.comments = @ \cup { comment } ],
               response |-> CommentSubmitted ]

-----------------------------------------------------------------------------
(* The requests clients send.  VoteRequest (models/schemas.py) admits a     *)
(* body whose fingerprint has 64 characters and whose choices are a        *)
(* non-empty list of integers.                                             *)

Payloads == { << 1 >>, << 9 >>, << 1, 2 >>, << 1, 1 >> }

Comments == { None, Some("gg") }

Requests ==
    [ category_id : CategoryIds, fingerprint : Fingerprints, ip : ClientIps ]

\* CommentRequest (models/schemas.py): 1 is the id of the vote of VotedStore,
\* 2 the id of no vote; content has 1 to 1000 characters
CommentVoteIds == { 1, 2 }

CommentTexts == { "gg", "wp" }

\* Other clients seen by the counter store within its windows: ip1 is a shared
\* address four other devices voted from, f2 a device seen from three other
\* addresses
InitialRedis ==
    [ ip_fps   |-> [ h \in { hash_ip(ip) : ip \in ClientIps } |->
                       { "o1", "o2", "o3", "o4" } ],
      fp_ips   |-> [ f \in Fingerprints |->
                       IF f = "f2"
                       THEN { hash_ip("x1"), hash_ip("x2"), hash_ip("x3") }
                       ELSE {} ],
      attempts |-> EmptyBag ]

NoResponse ==
    [ kind |-> "none", status |-> 0, detail |-> "", vote_id |-> None,
      body |-> None,
      flagged |-> FALSE, active |-> FALSE, had_vote |-> FALSE,
      raced |-> FALSE, wrote |-> FALSE ]

NoCall ==
    [ kind |-> "none", category_id |-> 0, fingerprint |-> "", choices |-> << >>,
      redis_fault |-> "none", vote_id |-> 0, content |-> "" ]

Init ==
    /\ db \in InitialStores
    /\ redis = InitialRedis
    /\ inflight = EmptyBag
    /\ resp = NoResponse
    /\ call = NoCall

\* The response to a request for (category_id, fingerprint), and what was true
\* when the handler ran: flagged - the abuse check reported it suspicious;
\* active - the category exists and is active; had_vote - the store held a vote
\* of the voter in the category; raced - another submission of the same voter
\* in the same category was suspended; wrote - the rows of the store changed
Answer(kind, category_id, fingerprint, response, flagged, raced, store_after) ==
    [ kind |-> kind,
      status |-> response.status, detail |-> response.detail,
      vote_id |-> response.vote_id,
      body |-> IF "body" \in DOMAIN response THEN response.body ELSE None,
      flagged |-> flagged,
      active |-> /\ category_id \in DOMAIN db.categories
                 /\ db.categories[category_id].is_active,
      had_vote |-> SelectVote(db, category_id, fingerprint) # {},
      raced |-> raced,
      wrote |-> VotingRows(store_after) # VotingRows(db) ]

Entry(q) ==
    [ category_id |-> q.category_id ] @@ get_vote_identity(q.ip, q.fingerprint)

\* submit_vote is called and runs to the prior-vote SELECT
SubmitVoteAdmit ==
    \E q \in Requests, fault \in RedisFaults :
        LET a == submit_vote_admit(db, redis, q, fault)
        IN  /\ redis' = a.redis
            /\ db' = a.store
            /\ call' = call
            /\ IF a.admitted
               THEN /\ BagCardinality(inflight) < MaxInFlight
                    /\ inflight' = inflight (+) SetToBag({ Entry(q) })
                    /\ resp' = resp
               ELSE /\ inflight' = inflight
                    /\ resp' = Answer("submit", q.category_id, q.fingerprint,
                                      a.response, a.response.status = 429,
                                      FALSE, a.store)

\* a suspended submit_vote resumes and runs to its end
SubmitVotePersist ==
    \E e \in BagToSet(inflight), choices \in Payloads, comment \in Comments,
       fault \in RedisFaults :
        LET out == submit_vote_persist(db, redis, e, choices, comment, fault)
            rest == inflight (-) SetToBag({ e })
            raced == \E o \in BagToSet(rest) :
                         /\ o.category_id = e.category_id
                         /\ o.fingerprint_hash = e.fingerprint_hash
        IN  /\ db' = out.store
            /\ redis' = out.redis
            /\ inflight' = rest
            /\ call' = call
            /\ resp' = Answer("submit", e.category_id, e.fingerprint_hash,
                              out.response, FALSE, raced, out.store)

\* upsert_vote is called and runs to its end
UpsertVote ==
    \E q \in Requests, choices \in Payloads, fault \in RedisFaults :
        LET out == upsert_vote(db, redis, q, choices, fault)
        IN  /\ db' = out.store
            /\ redis' = out.redis
            /\ inflight' = inflight
            /\ call' = call
            /\ resp' = Answer("upsert", q.category_id, q.fingerprint,
                              out.response, out.response.status = 429,
                              FALSE, out.store)

Next ==
    \/ SubmitVoteAdmit
    \/ SubmitVotePersist
    \/ UpsertVote

\* Requests of any number of clients, interleaved
Spec == Init /\ [][Next]_vars

-----------------------------------------------------------------------------
(* Requests served one at a time: each handler runs from its first line to *)
(* its last before the next request arrives.                               *)

\* submit_vote, lines 39-199
CallSubmitVote ==
    \E q \in Requests, choices \in Payloads, comment \in Comments,
       fault \in RedisFaults :
        LET a == submit_vote_admit(db, redis, q, fault)
            out == IF a.admitted
                   THEN submit_vote_persist(a.store, a.redis, Entry(q), choices,
                                            comment, fault)
                   ELSE [ store |-> a.store, redis |-> a.redis,
                          response |-> a.response ]
        IN  /\ db' = out.store
            /\ redis' = out.redis
            /\ inflight' = inflight
            /\ resp' = Answer("submit", q.category_id, q.fingerprint,
                              out.response, out.response.status = 429,
                              FALSE, out.store)
            /\ call' = [ kind |-> "submit", category_id |-> q.category_id,
                         fingerprint |-> q.fingerprint, choices |-> choices,
                         redis_fault |-> fault, vote_id |-> 0, content |-> "" ]

\* upsert_vote, lines 243-347
CallUpsertVote ==
    \E q \in Requests, choices \in Payloads, fault \in RedisFaults :
        LET out == upsert_vote(db, redis, q, choices, fault)
        IN  /\ db' = out.store
            /\ redis' = out.redis
            /\ inflight' = inflight
            /\ resp' = Answer("upsert", q.category_id, q.fingerprint,
                              out.response, out.response.status = 429,
                              FALSE, out.store)
            /\ call' = [ kind |-> "upsert", category_id |-> q.category_id,
                         fingerprint |-> q.fingerprint, choices |-> choices,
                         redis_fault |-> fault, vote_id |-> 0, content |-> "" ]

\* submit_comment, lines 356-379
CallSubmitComment ==
    \E vote_id \in CommentVoteIds, content \in CommentTexts :
        LET out == submit_comment(db, vote_id, content)
        IN  /\ db' = out.store
            /\ UNCHANGED << redis, inflight >>
            /\ resp' = Answer("comment", 0, "", out.response, FALSE, FALSE,
                              out.store)
            /\ call' = [ NoCall EXCEPT !.kind = "comment", !.vote_id = vote_id,
                                       !.content = content ]

\* get_results, lines 39-105
CallGetResults ==
    \E category_id \in CategoryIds, ip \in ClientIps,
       fingerprint \in { None } \cup { Some(f) : f \in Fingerprints } :
        LET out == get_results(db, category_id, ip, fingerprint)
        IN  /\ db' = out.store
            /\ UNCHANGED << redis, inflight >>
            /\ resp' = Answer("results", category_id,
                              IF fingerprint = None THEN "" ELSE fingerprint[1],
                              out.response, FALSE, FALSE, out.store)
            /\ call' = [ NoCall EXCEPT
                           !.kind = "results", !.category_id = category_id,
                           !.fingerprint = IF fingerprint = None THEN ""
                                           ELSE fingerprint[1] ]

NextCall ==
    \/ CallSubmitVote
    \/ CallUpsertVote
    \/ CallSubmitComment
    \/ CallGetResults

SpecCalls == Init /\ [][NextCall]_vars

-----------------------------------------------------------------------------
(* validate_fingerprint applied to the texts a client can put into the     *)
(* fingerprint field: 63 to 65 characters, made of a beginning, a run of   *)
(* one hex digit and an end.                                               *)

TextLens == { 63, 64, 65 }

TextBeginnings ==
    { << >>, << "0", "x" >>, << "0", "X" >>, << "+" >>, << "-" >>, << " " >>,
      << "_" >>, << "g" >>, << "0", "x", "_" >>, << "0", "x", "_", "_" >>,
      << "+", "0", "x" >>, << "x" >> }

TextEnds ==
    { << >>, << " " >>, << "\n" >>, << "_" >>, << "_", "a" >>,
      << "_", "_", "a" >>, << "g" >>, << "0", "x" >> }

TextFills == { "a", "F", "7" }

FingerprintTexts ==
    { b \o Rep(c, n - Len(b) - Len(e)) \o e :
        b \in TextBeginnings, e \in TextEnds, c \in TextFills, n \in TextLens }

InitFingerprint ==
    /\ db = EmptyStore
    /\ redis = InitialRedis
    /\ inflight = EmptyBag
    /\ resp = NoResponse
    /\ call \in { [ NoCall EXCEPT !.kind = "validate_fingerprint",
                                  !.fingerprint = t ] : t \in FingerprintTexts }

\* validate_fingerprint(fingerprint), lines 43-51
CallValidateFingerprint ==
    /\ resp.kind = "none"
    /\ resp' = [ NoResponse EXCEPT
                   !.kind = "validate_fingerprint",
                   !.body = Some(validate_fingerprint(call.fingerprint)) ]
    /\ UNCHANGED << db, redis, inflight, call >>

SpecFingerprint == InitFingerprint /\ [][CallValidateFingerprint]_vars

-----------------------------------------------------------------------------
(* EloService.record_match applied match after match to a store that starts *)
(* without ratings.  Its one caller, submit_vote (lines 104-113, 173-177),   *)
(* passes the two choices of an elo_tournament vote after checking that     *)
(* they differ.                                                             *)

\* matches recorded in one run
MaxMatches == 3

\* the categories whose comparison_mode is elo_tournament
EloCategories ==
    { c \in DOMAIN Categories : Categories[c].comparison_mode = "elo_tournament" }

RECURSIVE GamesPlayed(_)
GamesPlayed(elo_ratings) ==
    IF elo_ratings = {} THEN 0
    ELSE LET r == CHOOSE x \in elo_ratings : TRUE
         IN  r.games_played + GamesPlayed(elo_ratings \ {r})

InitElo ==
    /\ db = EmptyStore
    /\ redis = InitialRedis
    /\ inflight = EmptyBag
    /\ resp = NoResponse
    /\ call = NoCall

\* elo_service.record_match(category.id, winner_id, loser_id) and the commit
CallRecordMatch ==
    \E category_id \in EloCategories, winner_id \in Items, loser_id \in Items :
        /\ winner_id # loser_id
        /\ GamesPlayed(db.elo_ratings) < 2 * MaxMatches
        /\ LET out == record_match(db, category_id, winner_id, loser_id)
           IN  /\ out.ok
               /\ db' = out.store
               /\ resp' = [ NoResponse EXCEPT !.kind = "record_match",
                                              !.body = Some(out.ratings) ]
               /\ call' = [ NoCall EXCEPT !.kind = "record_match",
                                          !.category_id = category_id,
                                          !.choices = << winner_id, loser_id >> ]
        /\ UNCHANGED << redis, inflight >>

SpecElo == InitElo /\ [][CallRecordMatch]_vars

-----------------------------------------------------------------------------
(* wilson_confidence_interval applied to vote counts: every count of a     *)
(* small total, and the ends and the middle of large totals.               *)

\* the largest total of which every count is drawn
MaxTotal == 6

LargeTotals == { 1000, 120000, 200000 }

\* confidence in percent; 50 is a level without an entry in z_scores
Confidences == { 90, 95, 99, 50 }

WilsonInputs ==
    { [ kind |-> "wilson_confidence_interval", successes |-> x[1],
        total |-> x[2], confidence |-> c ] :
        x \in { y \in (0..MaxTotal) \X (0..MaxTotal) : y[1] <= y[2] }
              \cup UNION { { << 0, t >>, << 1, t >>, << t \div 2, t >>,
                             << t - 1, t >>, << t, t >> } : t \in LargeTotals },
        c \in Confidences }

InitWilson ==
    /\ db = EmptyStore
    /\ redis = InitialRedis
    /\ inflight = EmptyBag
    /\ resp = NoResponse
    /\ call \in WilsonInputs

\* wilson_confidence_interval(successes, total, confidence), lines 14-48
CallWilson ==
    /\ resp.kind = "none"
    /\ resp' = [ NoResponse EXCEPT
                   !.kind = "wilson_confidence_interval",
                   !.body = Some(wilson_confidence_interval(
                                     call.successes, call.total, call.confidence)) ]
    /\ UNCHANGED << db, redis, inflight, call >>

SpecWilson == InitWilson /\ [][CallWilson]_vars

-----------------------------------------------------------------------------
(* get_results applied to stores that hold ranked_list votes (category 3)  *)
(* and tournament_tiers votes (category 4) of the voters f1 and f2, with   *)
(* the VoteChoice rows lines 152-171 of submit_vote write for a ballot.    *)

\* the choices of a ranked_list ballot, or no ballot
RankedBallots == { None, Some(<< 1, 2, 3 >>), Some(<< 2, 1, 3 >>), Some(<< 3, 1 >>) }

\* the choices of a tournament_tiers ballot, (item_id, tier_index) pairs, or no
\* ballot
TierBallots == { None, Some(<< 1, 2 >>), Some(<< 1, 0 >>), Some(<< 1, 2, 2, 1 >>) }

\* the Vote row and the VoteChoice rows of one stored ballot
StoredBallot(vote_id, category_id, fingerprint, ballot) ==
    IF ballot = None THEN [ votes |-> {}, vote_choices |-> {} ]
    ELSE LET choices == ballot[1]
             mode == Categories[category_id].comparison_mode
         IN  [ votes |-> { [ id |-> vote_id, category_id |-> category_id,
                             fingerprint_hash |-> fingerprint,
                             ip_hash |-> hash_ip("ip1") ] },
               vote_choices |->
                 IF mode = "tournament_tiers"
                 THEN { [ vote_id |-> vote_id, item_id |-> choices[2 * i - 1],
                          rank |-> Some(choices[2 * i]) ] :
                        i \in 1..(Len(choices) \div 2) }
                 ELSE { [ vote_id |-> vote_id, item_id |-> choices[i],
                          rank |-> IF mode = "ranked_list" THEN Some(i)
                                   ELSE NoRank ] :
                        i \in 1..Len(choices) } ]

ResultStores ==
    { LET b == << StoredBallot(1, 3, "f1", r1), StoredBallot(2, 3, "f2", r2),
                  StoredBallot(3, 4, "f1", t1), StoredBallot(4, 4, "f2", t2) >>
      IN  [ EmptyStore EXCEPT
              !.votes = UNION { b[i].votes : i \in 1..4 },
              !.vote_choices = UNION { b[i].vote_choices : i \in 1..4 },
              !.vote_id_seq = 4 ] :
      r1 \in RankedBallots, r2 \in RankedBallots,
      t1 \in TierBallots, t2 \in TierBallots }

InitResults ==
    /\ db \in ResultStores
    /\ redis = InitialRedis
    /\ inflight = EmptyBag
    /\ resp = NoResponse
    /\ call = NoCall

SpecResults == InitResults /\ [][CallGetResults]_vars

-----------------------------------------------------------------------------
(* get_results applied to stores in which the categories 1 (single_choice) *)
(* and 3 (ranked_list) have private_results set, and each of the voters f1 *)
(* and f2 has or has not voted in each of the two.                         *)

PrivateSettings == [ private_results |-> TRUE ]

PrivateCategories == { 1, 3 }

\* the ballot stored for a voter in a private category, or no ballot
PrivateBallots(category_id) ==
    { None, Some(IF category_id = 1 THEN << 1 >> ELSE << 1, 2, 3 >>) }

PrivateStores ==
    { LET b == << StoredBallot(1, 1, "f1", a1), StoredBallot(2, 1, "f2", a2),
                  StoredBallot(3, 3, "f1", b1), StoredBallot(4, 3, "f2", b2) >>
      IN  [ EmptyStore EXCEPT
              !.categories = [ c \in DOMAIN Categories |->
                                 IF c \in PrivateCategories
                                 THEN [ Categories[c] EXCEPT
                                          !.settings = PrivateSettings ]
                                 ELSE Categories[c] ],
              !.votes = UNION { b[i].votes : i \in 1..4 },
              !.vote_choices = UNION { b[i].vote_choices : i \in 1..4 },
              !.vote_id_seq = 4 ] :
      a1 \in PrivateBallots(1), a2 \in PrivateBallots(1),
      b1 \in PrivateBallots(3), b2 \in PrivateBallots(3) }

InitPrivate ==
    /\ db \in PrivateStores
    /\ redis = InitialRedis
    /\ inflight = EmptyBag
    /\ resp = NoResponse
    /\ call = NoCall

SpecPrivate == InitPrivate /\ [][CallGetResults]_vars

-----------------------------------------------------------------------------
(* get_vote_status between submissions, one request at a time, while the   *)
(* counter store answers and the submissions carry no comment.             *)

\* get_vote_status, lines 210-229
CallGetVoteStatus ==
    \E q \in Requests :
        /\ resp' = Answer("status", q.category_id, q.fingerprint,
                          get_vote_status(db, q), FALSE, FALSE, db)
        /\ call' = [ NoCall EXCEPT !.kind = "status",
                                   !.category_id = q.category_id,
                                   !.fingerprint = q.fingerprint ]
        /\ UNCHANGED << db, redis, inflight >>

\* submit_vote, lines 39-199
StatusSubmitVote ==
    \E q \in Requests, choices \in Payloads :
        LET a == submit_vote_admit(db, redis, q, "none")
            out == IF a.admitted
                   THEN submit_vote_persist(a.store, a.redis, Entry(q), choices,
                                            None, "none")
                   ELSE [ store |-> a.store, redis |-> a.redis,
                          response |-> a.response ]
        IN  /\ db' = out.store
            /\ redis' = out.redis
            /\ inflight' = inflight
            /\ resp' = Answer("submit", q.category_id, q.fingerprint,
                              out.response, out.response.status = 429,
                              FALSE, out.store)
            /\ call' = [ NoCall EXCEPT !.kind = "submit",
                                       !.category_id = q.category_id,
                                       !.fingerprint = q.fingerprint,
                                       !.choices = choices ]

\* upsert_vote, lines 243-347
StatusUpsertVote ==
    \E q \in Requests, choices \in Payloads :
        LET out == upsert_vote(db, redis, q, choices, "none")
        IN  /\ db' = out.store
            /\ redis' = out.redis
            /\ inflight' = inflight
            /\ resp' = Answer("upsert", q.category_id, q.fingerprint,
                              out.response, out.response.status = 429,
                              FALSE, out.store)
            /\ call' = [ NoCall EXCEPT !.kind = "upsert",
                                       !.category_id = q.category_id,
                                       !.fingerprint = q.fingerprint,
                                       !.choices = choices ]

NextStatus ==
    \/ CallGetVoteStatus
    \/ StatusSubmitVote
    \/ StatusUpsertVote

SpecStatus == Init /\ [][NextStatus]_vars

-----------------------------------------------------------------------------
(* submit_vote from two client addresses, one request at a time, with a    *)
(* counter store that has seen no other client.                            *)

\* the addresses get_client_ip resolves: ip1 is the address the vote of
\* VotedStore was cast from
IdentityIps == { "ip1", "ip2" }

IdentityCategories == { 1, 2, 5, 6 }

IdentityPayloads == { << 1 >>, << 1, 2 >> }

IdentityRedis ==
    [ ip_fps   |-> [ h \in { hash_ip(ip) : ip \in IdentityIps } |-> {} ],
      fp_ips   |-> [ f \in Fingerprints |-> {} ],
      attempts |-> EmptyBag ]

InitIdentity ==
    /\ db \in InitialStores
    /\ redis = IdentityRedis
    /\ inflight = EmptyBag
    /\ resp = NoResponse
    /\ call = NoCall

\* submit_vote, lines 39-199; the call keeps the address of the client
IdentitySubmitVote ==
    \E category_id \in IdentityCategories, fingerprint \in Fingerprints,
       ip \in IdentityIps, choices \in IdentityPayloads, fault \in RedisFaults :
        LET q == [ category_id |-> category_id, fingerprint |-> fingerprint,
                   ip |-> ip ]
            a == submit_vote_admit(db, redis, q, fault)
            out == IF a.admitted
                   THEN submit_vote_persist(a.store, a.redis, Entry(q), choices,
                                            None, fault)
                   ELSE [ store |-> a.store, redis |-> a.redis,
                          response |-> a.response ]
        IN  /\ db' = out.store
            /\ redis' = out.redis
            /\ inflight' = inflight
            /\ resp' = Answer("submit", category_id, fingerprint, out.response,
                              out.response.status = 429, FALSE, out.store)
            /\ call' = [ kind |-> "submit", category_id |-> category_id,
                         fingerprint |-> fingerprint, choices |-> choices,
                         redis_fault |-> fault, vote_id |-> 0, content |-> "",
                         ip |-> ip ]

SpecIdentity == InitIdentity /\ [][IdentitySubmitVote]_vars

-----------------------------------------------------------------------------
(* The tier check and the write of upsert_vote (lines 289-347), then       *)
(* _calculate_tournament_tiers_results, applied to the tournament_tiers    *)
(* category 4 under each shape of its settings: tier_options absent,       *)
(* empty, of one name, of three names.                                     *)

TierOptionSettings ==
    { NoSettings, [ tier_options |-> << >> ], [ tier_options |-> << "S" >> ],
      TierSettings }

\* the tier indices clients send
TierIndices == -1..7

TierStores ==
    { [ EmptyStore EXCEPT !.categories[4].settings = settings ] :
        settings \in TierOptionSettings }

InitTiers ==
    /\ db \in TierStores
    /\ redis = InitialRedis
    /\ inflight = EmptyBag
    /\ resp = NoResponse
    /\ call \in { [ NoCall EXCEPT !.kind = "tier_vote", !.category_id = 4,
                                  !.fingerprint = "f1",
                                  !.choices = << item_id, tier_index >> ] :
                  item_id \in Items, tier_index \in TierIndices }

\* upsert_vote from its tier check on, lines 289-347
CallTierVote ==
    /\ resp.kind = "none"
    /\ LET q == [ category_id |-> call.category_id,
                  fingerprint |-> call.fingerprint, ip |-> "ip1" ]
           item_id == call.choices[1]
           tier_index == call.choices[2]
           out == IF \/ tier_index < 0
                     \/ tier_index >= num_tiers(db.categories[q.category_id].settings)
                  THEN [ store |-> db, redis |-> redis,
                         response |-> HTTPException(400, "Invalid tier index") ]
                  ELSE upsert_vote_write(db, redis, q,
                                         get_vote_identity(q.ip, q.fingerprint),
                                         item_id, tier_index, "none")
       IN  /\ db' = out.store
           /\ redis' = out.redis
           /\ resp' = [ NoResponse EXCEPT !.kind = "tier_vote",
                                          !.status = out.response.status,
                                          !.detail = out.response.detail,
                                          !.vote_id = out.response.vote_id ]
    /\ UNCHANGED << inflight, call >>

\* _calculate_tournament_tiers_results of the category, lines 239-301
CallTierResults ==
    /\ resp.kind = "tier_vote"
    /\ LET category_id == call.category_id
           total_votes == Cardinality({ v \in db.votes : v.category_id = category_id })
       IN  resp' = [ NoResponse EXCEPT
                       !.kind = "tier_results",
                       !.status = resp.status,
                       !.body = Some(_calculate_tournament_tiers_results(
                                         db, category_id,
                                         items_by_id(db, category_id), total_votes,
                                         db.categories[category_id].settings)) ]
    /\ UNCHANGED << db, redis, inflight, call >>

NextTiers ==
    \/ CallTierVote
    \/ CallTierResults

SpecTiers == InitTiers /\ [][NextTiers]_vars

-----------------------------------------------------------------------------
(* EloService.record_match in up to MaxInFlight database sessions at once. *)
(* A session is a record of inflight: pc is the await it is suspended at,  *)
(* rows the EloRating objects it holds (as it read or created them),       *)
(* pending the items whose rows it has flushed but not committed.  The     *)
(* engine sets no isolation level (connections.py lines 14-19), so a       *)
(* SELECT sees committed rows only, an INSERT of a key another session has *)
(* flushed waits for that session to end, and an INSERT of a committed key *)
(* is refused by uq_elo_per_item.  Every session holds the id of the Vote  *)
(* flushed at votes.py line 150, which a rollback does not give back.      *)

\* sessions begun in one run
MaxRaceMatches == 3

RaceSessions == BagToSet(inflight)

RaceItem(s) == IF s.pc \in { "winner", "flush_winner" } THEN s.winner_id ELSE s.loser_id

\* the await after the one a session is suspended at, once its row is held
RaceAfter(s) == IF s.pc \in { "winner", "flush_winner" } THEN "loser" ELSE "commit"

RaceNewRow(s) ==
    [ category_id |-> s.category_id, item_id |-> RaceItem(s),
      rating |-> initial_rating, games_played |-> 0 ]

\* the rows a session has flushed and not committed
RacePending(s) == { s.rows[i] : i \in s.pending }

\* the INSERT of s waits for the session t
RaceWaitsFor(s, t) ==
    /\ s.pc \in { "flush_winner", "flush_loser" }
    /\ t # s
    /\ uq_elo_per_item(RacePending(t), RaceNewRow(s))

RaceReplace(s, t) == (inflight (-) SetToBag({ s })) (+) SetToBag({ t })

RaceAnswer(s, response) ==
    /\ resp' = [ NoResponse EXCEPT !.kind = "record_match",
                                   !.status = response.status,
                                   !.detail = response.detail,
                                   !.body = response.body ]
    /\ call' = [ NoCall EXCEPT !.kind = "record_match",
                               !.category_id = s.category_id,
                               !.choices = << s.winner_id, s.loser_id >>,
                               !.vote_id = s.id ]

\* submit_vote reaches line 177 with a new session
RaceBegin ==
    \E category_id \in EloCategories, winner_id \in Items, loser_id \in Items :
        /\ winner_id # loser_id
        /\ db.vote_id_seq < MaxRaceMatches
        /\ BagCardinality(inflight) < MaxInFlight
        /\ db' = [ db EXCEPT !.vote_id_seq = @ + 1 ]
        /\ inflight' = inflight (+) SetToBag({
               [ id |-> db.vote_id_seq + 1, category_id |-> category_id,
                 winner_id |-> winner_id, loser_id |-> loser_id, pc |-> "winner",
                 rows |-> [ i \in {} |-> 0 ], pending |-> {} ] })
        /\ UNCHANGED << redis, resp, call >>

\* get_or_create_rating, lines 62-69: the SELECT
RaceSelect ==
    \E s \in RaceSessions :
        /\ s.pc \in { "winner", "loser" }
        /\ LET found == SelectRating(db, s.category_id, RaceItem(s))
           IN  inflight' = RaceReplace(s,
                   IF found # {}
                   THEN [ s EXCEPT !.rows = @ @@ (RaceItem(s) :> CHOOSE r \in found : TRUE),
                                   !.pc = RaceAfter(s) ]
                   ELSE [ s EXCEPT !.pc = IF s.pc = "winner" THEN "flush_winner"
                                          ELSE "flush_loser" ])
        /\ UNCHANGED << db, redis, resp, call >>

\* get_or_create_rating, lines 71-78: the new row is added and flushed
RaceFlush ==
    \E s \in RaceSessions :
        /\ s.pc \in { "flush_winner", "flush_loser" }
        /\ ~uq_elo_per_item(db.elo_ratings, RaceNewRow(s))
        /\ \A t \in RaceSessions : ~RaceWaitsFor(s, t)
        /\ inflight' = RaceReplace(s,
               [ s EXCEPT !.rows = @ @@ (RaceItem(s) :> RaceNewRow(s)),
                          !.pending = @ \cup { RaceItem(s) },
                          !.pc = RaceAfter(s) ])
        /\ UNCHANGED << db, redis, resp, call >>

\* the flush of line 78 is refused: the key was committed after the SELECT;
\* the IntegrityError is not caught and the session is closed without a commit
RaceIntegrityError ==
    \E s \in RaceSessions :
        /\ s.pc \in { "flush_winner", "flush_loser" }
        /\ uq_elo_per_item(db.elo_ratings, RaceNewRow(s))
        /\ inflight' = inflight (-) SetToBag({ s })
        /\ RaceAnswer(s, ServerError("IntegrityError") @@ [ body |-> None ])
        /\ UNCHANGED << db, redis >>

\* two sessions wait for each other's INSERT: the database ends one of them
RaceDeadlock ==
    \E s \in RaceSessions, t \in RaceSessions :
        /\ RaceWaitsFor(s, t)
        /\ RaceWaitsFor(t, s)
        /\ inflight' = inflight (-) SetToBag({ s })
        /\ RaceAnswer(s, ServerError("DeadlockDetected") @@ [ body |-> None ])
        /\ UNCHANGED << db, redis >>

\* record_match, lines 102-114, and the commit of votes.py line 188: the rows
\* created are inserted, the rows read are updated with the values computed
\* from what the session holds
RaceCommit ==
    \E s \in RaceSessions :
        /\ s.pc = "commit"
        /\ LET new == calculate_elo_update(s.rows[s.winner_id].rating,
                                           s.rows[s.loser_id].rating)
               written(i) == [ s.rows[i] EXCEPT
                                 !.rating = IF i = s.winner_id THEN new[1] ELSE new[2],
                                 !.games_played = @ + 1 ]
               updated == { r \in db.elo_ratings :
                              /\ r.category_id = s.category_id
                              /\ r.item_id \in { s.winner_id, s.loser_id } \ s.pending }
           IN  /\ db' = [ db EXCEPT !.elo_ratings =
                            (@ \ updated) \cup { written(s.winner_id),
                                                 written(s.loser_id) } ]
               /\ RaceAnswer(s, [ status |-> 200, detail |-> "",
                                  body |-> Some(new) ])
        /\ inflight' = inflight (-) SetToBag({ s })
        /\ UNCHANGED redis

NextEloRace ==
    \/ RaceBegin
    \/ RaceSelect
    \/ RaceFlush
    \/ RaceIntegrityError
    \/ RaceDeadlock
    \/ RaceCommit

SpecEloRace == InitElo /\ [][NextEloRace]_vars

-----------------------------------------------------------------------------
(* Properties *)

FourModes == { "single_choice", "elo_tournament", "ranked_list", "tournament_tiers" }

Rejections == { 400, 404, 409, 429 }

\* C2: a submit_vote that ran while another submission of the same voter in
\* the same category had passed the prior-vote check too is answered with
\* success or with DuplicateVote (409), never with a generic failure
C2_RaceReportedAsDuplicate ==
    (resp.kind = "submit" /\ resp.raced) => resp.status \in { 200, 409 }

\* C4: a submit_vote or upsert_vote answered with a rejection (400, 404, 409
\* or 429) left the Vote, VoteChoice, Comment and EloRating rows as they were
C4_RejectionWritesNothing ==
    (resp.kind \in { "submit", "upsert" } /\ resp.status \in Rejections)
        => ~resp.wrote

\* a suspicious-activity rejection of a submission, with rows in the store
C4_Witness ==
    /\ resp.kind = "submit"
    /\ resp.status = 429
    /\ resp.flagged
    /\ ~resp.wrote
    /\ db.votes # {}

\* the call answered last is a submit_vote of a voter with a well-formed
\* fingerprint, not flagged, for an existing active category
C5_Admissible ==
    /\ call.kind = "submit"
    /\ FingerprintValid[call.fingerprint]
    /\ ~resp.flagged
    /\ resp.active

\* the payload satisfies the count/shape rule of the category's mode and
\* names items of the category only
C5_WellFormed ==
    LET mode == db.categories[call.category_id].comparison_mode
        valid == ValidItemIds(db, call.category_id)
        n == Len(call.choices)
    IN  CASE mode = "single_choice" ->
                n = 1 /\ Range(call.choices) \subseteq valid
          [] mode = "elo_tournament" ->
                /\ n = 2
                /\ call.choices[1] # call.choices[2]
                /\ Range(call.choices) \subseteq valid
          [] mode = "ranked_list" ->
                /\ n >= 2
                /\ Cardinality(Range(call.choices)) = n
                /\ Range(call.choices) \subseteq valid
          [] mode = "tournament_tiers" ->
                /\ n >= 2
                /\ n % 2 = 0
                /\ \A i \in 1..(n \div 2) :
                       /\ call.choices[2 * i - 1] \in valid
                       /\ call.choices[2 * i] \in
                              0..(Len(db.categories[call.category_id]
                                        .settings.tier_options) - 1)
                /\ Cardinality({ call.choices[2 * i - 1] : i \in 1..(n \div 2) })
                       = n \div 2
          [] OTHER -> FALSE

\* C5: an admissible, well-formed submit_vote of a voter without a vote in
\* the category is answered with success and the id of a Vote row of the voter
\* in the category, which has one VoteChoice row per selection
C5_ValidSubmitPersists ==
    (C5_Admissible /\ ~resp.had_vote /\ C5_WellFormed) =>
        /\ resp.status = 200
        /\ resp.vote_id # None
        /\ \E v \in db.votes :
               /\ v.id = resp.vote_id[1]
               /\ v.category_id = call.category_id
               /\ v.fingerprint_hash = call.fingerprint
               /\ Cardinality({ c \in db.vote_choices : c.vote_id = v.id })
                      = IF db.categories[call.category_id].comparison_mode
                               = "tournament_tiers"
                        THEN Len(call.choices) \div 2
                        ELSE Len(call.choices)

\* C6: a submit_vote for an existing active category by a voter who is not
\* flagged and has a vote in the category is answered with DuplicateVote (409),
\* whatever its payload, and changes no row
C6_PriorVoteIsDuplicate ==
    (C5_Admissible /\ resp.had_vote) =>
        /\ resp.status = 409
        /\ resp.detail = "Already voted in this category"
        /\ ~resp.wrote

\* a second submission of a voter, naming an item that is not of the category
C6_Witness ==
    /\ C5_Admissible
    /\ resp.had_vote
    /\ call.choices = << 9 >>
    /\ resp.status = 409

\* C7: every category's comparison mode is one of single_choice,
\* elo_tournament, ranked_list and tournament_tiers, and the enumeration the
\* handlers dispatch on has all four
C7_EnumerationHasFourModes ==
    /\ \A c \in DOMAIN db.categories :
           db.categories[c].comparison_mode \in FourModes
    /\ ModeValues = FourModes

\* C8: every VoteChoice row references an item of its vote's category, and a
\* submit_vote that reaches the item check with an item that is not of the
\* category (in tournament_tiers mode: at an even position, counted from 0) is
\* answered with ItemNotInCategory
C8_ForeignItemRejected ==
    /\ \A c \in db.vote_choices : \A v \in db.votes :
           v.id = c.vote_id => c.item_id \in ValidItemIds(db, v.category_id)
    /\ (/\ C5_Admissible
        /\ ~resp.had_vote
        /\ \E i \in 1..Len(call.choices) :
               /\ call.choices[i] \notin ValidItemIds(db, call.category_id)
               /\ \/ db.categories[call.category_id].comparison_mode
                         # "tournament_tiers"
                  \/ i % 2 = 1)
        => /\ resp.status = 400
           /\ resp.detail = "Item is not valid for this category"

\* the call answered last is an upsert_vote of [item_id, tier_index] by a
\* voter with a well-formed fingerprint for an active tournament_tiers
\* category, the item one of the category, the index one of its tiers
C9_ValidUpsert(c) ==
    /\ c.kind = "upsert"
    /\ FingerprintValid[c.fingerprint]
    /\ c.category_id \in DOMAIN db.categories
    /\ db.categories[c.category_id].is_active
    /\ db.categories[c.category_id].comparison_mode = "tournament_tiers"
    /\ Len(c.choices) = 2
    /\ c.choices[1] \in ValidItemIds(db, c.category_id)
    /\ c.choices[2] \in
           0..(Len(db.categories[c.category_id].settings.tier_options) - 1)

\* C9: when upsert_vote is called twice in a row for the same category,
\* fingerprint and item with different tier indexes, and neither call is
\* rejected as suspicious, the voter's vote then has exactly one VoteChoice row
\* of the item, and its rank is the later index
C9_UpsertKeepsLatestTier ==
    [][ (/\ C9_ValidUpsert(call)
         /\ C9_ValidUpsert(call')
         /\ resp.status # 429
         /\ resp'.status # 429
         /\ call'.category_id = call.category_id
         /\ call'.fingerprint = call.fingerprint
         /\ call'.choices[1] = call.choices[1]
         /\ call'.choices[2] # call.choices[2])
        => \E v \in db'.votes :
               /\ v.category_id = call'.category_id
               /\ v.fingerprint_hash = call'.fingerprint
               /\ { c.rank : c \in { x \in db'.vote_choices :
                                       /\ x.vote_id = v.id
                                       /\ x.item_id = call'.choices[1] } }
                      = { Some(call'.choices[2]) }
               /\ Cardinality({ x \in db'.vote_choices :
                                  /\ x.vote_id = v.id
                                  /\ x.item_id = call'.choices[1] }) = 1
      ]_vars

\* C11: a submit_vote during which the abuse-detection store fails is never
\* rejected as suspicious, and when it is admissible and well-formed and the
\* voter has no vote in the category it is answered with success and its vote
\* is persisted
C11_AbuseDetectionFailsOpen ==
    (call.kind = "submit" /\ call.redis_fault # "none") =>
        /\ resp.status # 429
        /\ (C5_Admissible /\ ~resp.had_vote /\ C5_WellFormed) =>
               /\ resp.status = 200
               /\ resp.wrote

\* C12: a submit_vote of a voter with a well-formed fingerprint who is not
\* flagged, for an elo_tournament category, active or not, with a payload of
\* two equal item ids is answered with InvalidChoiceShape
C12_SameWinnerLoserRejected ==
    (/\ call.kind = "submit"
     /\ FingerprintValid[call.fingerprint]
     /\ ~resp.flagged
     /\ call.category_id \in DOMAIN db.categories
     /\ db.categories[call.category_id].comparison_mode = "elo_tournament"
     /\ Len(call.choices) = 2
     /\ call.choices[1] = call.choices[2])
    => /\ resp.status = 400
       /\ resp.detail = "Winner and loser must be different items"

\* sum of the vote_count values of a list of result records
RECURSIVE C13_VoteCounts(_)
C13_VoteCounts(results) ==
    IF results = << >> THEN 0
    ELSE Head(results).vote_count + C13_VoteCounts(Tail(results))

\* C13: every vote of a single_choice category has exactly one VoteChoice row,
\* and the vote_count values of the records get_results answers for such a
\* category sum to the total_votes it answers
C13_SingleChoiceCountsSumToTotal ==
    /\ \A v \in db.votes :
           db.categories[v.category_id].comparison_mode = "single_choice"
               => Cardinality({ c \in db.vote_choices : c.vote_id = v.id }) = 1
    /\ (/\ call.kind = "results"
        /\ call.category_id \in DOMAIN db.categories
        /\ db.categories[call.category_id].comparison_mode = "single_choice")
        => /\ resp.status = 200
           /\ resp.body[1].total_votes
                  = Cardinality({ v \in db.votes : v.category_id = call.category_id })
           /\ C13_VoteCounts(resp.body[1].results) = resp.body[1].total_votes

\* the results of a single_choice category that has a vote
C13_Witness ==
    /\ call.kind = "results"
    /\ resp.status = 200
    /\ resp.body[1].comparison_mode = "single_choice"
    /\ resp.body[1].total_votes = 1
    /\ C13_VoteCounts(resp.body[1].results) = 1

\* the call answered last is an admissible submit_vote of a voter without a
\* vote in the category, for a category of the mode, naming its items only
\* (in tournament_tiers mode: at the even positions, counted from 0)
C14_ReachesShapeRule(mode) ==
    /\ C5_Admissible
    /\ ~resp.had_vote
    /\ db.categories[call.category_id].comparison_mode = mode
    /\ \A i \in 1..Len(call.choices) :
           (mode = "tournament_tiers" => i % 2 = 1)
               => call.choices[i] \in ValidItemIds(db, call.category_id)

\* C14: every vote of an elo_tournament category has exactly two VoteChoice
\* rows, of two different items, and a submit_vote that reaches the shape rule
\* of such a category with a payload of another length or with two equal items
\* is answered with InvalidChoiceShape and writes nothing
C14_EloVoteHasTwoChoices ==
    /\ \A v \in db.votes :
           db.categories[v.category_id].comparison_mode = "elo_tournament"
               => Cardinality({ c.item_id : c \in { x \in db.vote_choices :
                                                      x.vote_id = v.id } }) = 2
    /\ (/\ C14_ReachesShapeRule("elo_tournament")
        /\ \/ Len(call.choices) # 2
           \/ call.choices[1] = call.choices[2])
        => /\ resp.status = 400
           /\ resp.detail \in
                  { "ELO tournament mode requires exactly two choices (winner, loser)",
                    "Winner and loser must be different items" }
           /\ ~resp.wrote

\* C15: every vote of a ranked_list category has n >= 2 VoteChoice rows with
\* the ranks 1..n, votes of single_choice and elo_tournament categories have
\* rows without rank, and a submit_vote that reaches the shape rule of a
\* ranked_list category with fewer than two choices is answered with
\* InvalidChoiceShape
C15_RankedVoteHasRanks ==
    /\ \A v \in db.votes :
           LET rows == { c \in db.vote_choices : c.vote_id = v.id }
               mode == db.categories[v.category_id].comparison_mode
           IN  /\ mode = "ranked_list" =>
                      /\ Cardinality(rows) >= 2
                      /\ { c.rank : c \in rows }
                             = { Some(i) : i \in 1..Cardinality(rows) }
               /\ mode \in { "single_choice", "elo_tournament" } =>
                      \A c \in rows : c.rank = NoRank
    /\ (C14_ReachesShapeRule("ranked_list") /\ Len(call.choices) < 2)
        => /\ resp.status = 400
           /\ resp.detail = "Ranked list mode requires at least two choices"
           /\ ~resp.wrote

\* C16: every VoteChoice row of a vote of a tournament_tiers category has a
\* rank t with 0 <= t < num_tiers, and a submit_vote that reaches the shape
\* rule of such a category with a payload of odd length or with a tier index
\* outside that range is answered with InvalidChoiceShape and writes nothing
C16_TierIndexInRange ==
    /\ \A v \in db.votes : \A c \in db.vote_choices :
           (/\ c.vote_id = v.id
            /\ db.categories[v.category_id].comparison_mode = "tournament_tiers")
           => /\ c.rank # NoRank
              /\ c.rank[1] >= 0
              /\ c.rank[1] < (IF /\ "tier_options" \in DOMAIN
                                        db.categories[v.category_id].settings
                                 /\ db.categories[v.category_id].settings.tier_options
                                        # << >>
                              THEN Len(db.categories[v.category_id].settings.tier_options)
                              ELSE 7)
    /\ (/\ C14_ReachesShapeRule("tournament_tiers")
        /\ \/ Len(call.choices) % 2 = 1
           \/ \E i \in 1..Len(call.choices) :
                  /\ i % 2 = 0
                  /\ call.choices[i] \notin
                         0..(Len(db.categories[call.category_id]
                                   .settings.tier_options) - 1))
        => /\ resp.status = 400
           /\ resp.detail \in
                  { "Tournament tiers mode requires pairs of (item_id, tier_index)",
                    "Invalid tier index" }
           /\ ~resp.wrote

\* C18: every step leaves at most one Comment per Vote and creates unapproved
\* comments only; a submit_comment for an unknown vote id is answered with
\* VoteNotFound (404) and one for a vote that has a comment with
\* CommentAlreadyExists (409), both changing nothing, and one for a vote
\* without comment adds exactly the unapproved comment
C18_OneUnapprovedCommentPerVote ==
    [][ /\ \A v \in db'.votes :
               Cardinality({ c \in db'.comments : c.vote_id = v.id }) <= 1
        /\ \A c \in db'.comments \ db.comments : ~c.is_approved
        /\ call'.kind = "comment" =>
               LET known == \E v \in db.votes : v.id = call'.vote_id
                   had == \E c \in db.comments : c.vote_id = call'.vote_id
               IN  /\ ~known => /\ resp'.status = 404
                                /\ resp'.detail = "Vote not found"
                                /\ db' = db
                   /\ (known /\ had) =>
                          /\ resp'.status = 409
                          /\ resp'.detail = "Comment already exists for this vote"
                          /\ db' = db
                   /\ (known /\ ~had) =>
                          /\ resp'.status = 200
                          /\ db' = [ db EXCEPT !.comments = @ \cup
                                       { [ vote_id |-> call'.vote_id,
                                           content |-> call'.content,
                                           is_approved |-> FALSE ] } ]
      ]_vars

\* a second comment on the vote of the store was refused
C18_Witness ==
    /\ call.kind = "comment"
    /\ resp.status = 409
    /\ Cardinality({ c \in db.comments : c.vote_id = call.vote_id }) = 1
    /\ \E c \in db.comments : c.vote_id = call.vote_id /\ c.content # call.content

\* C19: get_results for an existing category answers exactly one record for
\* each item of the category's CategoryItem set and none for another item
C19_OneRecordPerItem ==
    (call.kind = "results" /\ call.category_id \in DOMAIN db.categories) =>
        /\ resp.status = 200
        /\ Len(resp.body[1].results)
               = Cardinality(ValidItemIds(db, call.category_id))
        /\ { resp.body[1].results[i].item_id :
               i \in 1..Len(resp.body[1].results) }
               = ValidItemIds(db, call.category_id)

C21_AcceptsExactly64HexDigits ==
    resp.kind = "validate_fingerprint" =>
        ( resp.body = Some(TRUE) <=>
            /\ Len(call.fingerprint) = 64
            /\ \A i \in 1..Len(call.fingerprint) :
                   call.fingerprint[i] \in HexDigits )

\* the row get_or_create_rating returns for (category_id, item_id) in store
C22_RatingOf(store, category_id, item_id) ==
    IF SelectRating(store, category_id, item_id) # {}
    THEN CHOOSE r \in SelectRating(store, category_id, item_id) : TRUE
    ELSE [ category_id |-> category_id, item_id |-> item_id,
           rating |-> 150000, games_played |-> 0 ]

\* C22: record_match(cat, A, B) with A and B both at rating 1500.0 and 0 games
\* (k_factor 32) returns (1516.0, 1484.0) and stores 1516.0 as the rating of the
\* winner A and 1484.0 as the rating of the loser B
C22_EvenMatchYields1516And1484 ==
    [][ LET c == call'.category_id
            a == call'.choices[1]
            b == call'.choices[2]
        IN  ( /\ call'.kind = "record_match"
              /\ C22_RatingOf(db, c, a).rating = 150000
              /\ C22_RatingOf(db, c, a).games_played = 0
              /\ C22_RatingOf(db, c, b).rating = 150000
              /\ C22_RatingOf(db, c, b).games_played = 0 )
            => /\ resp'.body = Some(<< 151600, 148400 >>)
               /\ C22_RatingOf(db', c, a).rating = 151600
               /\ C22_RatingOf(db', c, b).rating = 148400 ]_vars

\* the first match of a category was recorded: winner at 1516.0, loser at 1484.0
C22_Witness ==
    /\ call.kind = "record_match"
    /\ GamesPlayed(db.elo_ratings) = 2
    /\ resp.body = Some(<< 151600, 148400 >>)
    /\ \E r \in db.elo_ratings :
           r.item_id = call.choices[1] /\ r.rating = 151600

\* C30: record_match(category, winner, loser) leaves the winner's and the loser's
\* row with games_played one higher than before (a row that did not exist counts
\* as rating 1500.0 with 0 games, and the new ratings are computed from that),
\* and leaves every other EloRating row as it was
C30_MatchTouchesTwoRows ==
    [][ LET c == call'.category_id
            w == call'.choices[1]
            l == call'.choices[2]
            others(store) ==
                { r \in store.elo_ratings :
                    ~(r.category_id = c /\ r.item_id \in { w, l }) }
            gain == EloGain(C22_RatingOf(db, c, l).rating
                              - C22_RatingOf(db, c, w).rating)
        IN  call'.kind = "record_match"
            => /\ Cardinality(SelectRating(db', c, w)) = 1
               /\ Cardinality(SelectRating(db', c, l)) = 1
               /\ C22_RatingOf(db', c, w).games_played
                    = C22_RatingOf(db, c, w).games_played + 1
               /\ C22_RatingOf(db', c, l).games_played
                    = C22_RatingOf(db, c, l).games_played + 1
               /\ C22_RatingOf(db', c, w).rating
                    = C22_RatingOf(db, c, w).rating + gain
               /\ C22_RatingOf(db', c, l).rating
                    = C22_RatingOf(db, c, l).rating - gain
               /\ others(db') = others(db) ]_vars

\* a match was recorded between an item that had played and one that had no
\* row, while rows of another item and of another category existed
C30_Witness ==
    /\ call.kind = "record_match"
    /\ \E r \in db.elo_ratings :
           /\ r.category_id = call.category_id
           /\ r.item_id = call.choices[1]
           /\ r.games_played = 2
    /\ \E r \in db.elo_ratings :
           /\ r.category_id = call.category_id
           /\ r.item_id = call.choices[2]
           /\ r.games_played = 1
    /\ \E r \in db.elo_ratings : r.category_id # call.category_id

\* C25: for 0 <= successes <= total, wilson_confidence_interval(successes, total,
\* 0.95) returns (lower, upper) with 0 <= lower <= percentage <= upper <= 100,
\* where percentage is calculate_percentage(successes, total) = 100 * successes
\* / total (0 for total 0); and for total 0 it returns (0, 0) at every
\* confidence.  lower and upper are in hundredths, so lower <= percentage is
\* lower * total <= 10000 * successes.
C25_WilsonBoundsPercentage ==
    resp.kind = "wilson_confidence_interval" =>
        LET lower == resp.body[1][1]
            upper == resp.body[1][2]
        IN  /\ call.total = 0 => lower = 0 /\ upper = 0
            /\ call.confidence = 95 /\ call.total > 0 =>
                   /\ 0 <= lower
                   /\ lower * call.total <= 10000 * call.successes
                   /\ 10000 * call.successes <= upper * call.total
                   /\ upper <= 10000

\* the ranks stored for an item in a category, one per VoteChoice row
C24_RankRows(category_id, item_id) ==
    { c \in db.vote_choices :
        /\ c.item_id = item_id
        /\ c.rank # NoRank
        /\ \E v \in db.votes : v.id = c.vote_id /\ v.category_id = category_id }

RECURSIVE C24_RankSum(_)
C24_RankSum(rows) ==
    IF rows = {} THEN 0
    ELSE LET c == CHOOSE x \in rows : TRUE
         IN  c.rank[1] + C24_RankSum(rows \ {c})

\* average (an optional value in hundredths) is the mean of the ranks of rows,
\* rounded to two decimals, and null when there are none
C24_IsMean(average, rows) ==
    IF rows = {} THEN average = None
    ELSE /\ average # None
         /\ LET n == Cardinality(rows)
                d == 100 * C24_RankSum(rows) - average[1] * n
            IN  2 * d <= n /\ -2 * d <= n

\* C24: in the results of a ranked_list category each item's average_rank is the
\* mean of all ranks recorded for it, null when it has none, and its vote_count
\* is the number of ranks recorded; for the two votes [2,1,3] and [1,2,3] the
\* items 1 and 2 have average_rank 1.5 and item 3 has 3.0
C24_AverageRankIsMean ==
    ( /\ call.kind = "results"
      /\ call.category_id \in DOMAIN Categories
      /\ Categories[call.category_id].comparison_mode = "ranked_list" )
    => /\ resp.status = 200
       /\ LET results == resp.body[1].results
              record(i) == CHOOSE k \in 1..Len(results) : results[k].item_id = i
          IN  /\ \A i \in Items :
                    LET rows == C24_RankRows(call.category_id, i)
                    IN  /\ \E k \in 1..Len(results) : results[k].item_id = i
                        /\ results[record(i)].vote_count = Cardinality(rows)
                        /\ C24_IsMean(results[record(i)].average_rank, rows)
              /\ ( { << c.vote_id, c.item_id, c.rank[1] >> :
                       c \in UNION { C24_RankRows(call.category_id, i) : i \in Items } }
                     = { << 1, 2, 1 >>, << 1, 1, 2 >>, << 1, 3, 3 >>,
                         << 2, 1, 1 >>, << 2, 2, 2 >>, << 2, 3, 3 >> } )
                 => /\ results[record(1)].average_rank = Some(150)
                    /\ results[record(2)].average_rank = Some(150)
                    /\ results[record(3)].average_rank = Some(300)

\* the results of the ranked_list category were computed for the two votes
\* [2,1,3] and [1,2,3]
C24_Witness ==
    /\ call.kind = "results"
    /\ call.category_id = 3
    /\ resp.status = 200
    /\ { << c.vote_id, c.item_id, c.rank[1] >> :
           c \in UNION { C24_RankRows(3, i) : i \in Items } }
         = { << 1, 2, 1 >>, << 1, 1, 2 >>, << 1, 3, 3 >>,
             << 2, 1, 1 >>, << 2, 2, 2 >>, << 2, 3, 3 >> }
    /\ \E k \in 1..3 : /\ resp.body[1].results[k].item_id = 3
                       /\ resp.body[1].results[k].average_rank = Some(300)
                       /\ resp.body[1].results[k].vote_count = 2

\* C23: in the results of a tournament_tiers category an item's average_tier
\* (the average_rank field) is the mean of its recorded tier indices other than
\* the last configured tier index, and null when no other index was recorded;
\* with tier_options [S, A, B] and every voter of item 1 choosing tier index 2,
\* the average_tier of item 1 is null
C23_AverageTierExcludesLastTier ==
    ( /\ call.kind = "results"
      /\ call.category_id \in DOMAIN Categories
      /\ Categories[call.category_id].comparison_mode = "tournament_tiers" )
    => /\ resp.status = 200
       /\ LET results == resp.body[1].results
              record(i) == CHOOSE k \in 1..Len(results) : results[k].item_id = i
              last == Len(Categories[call.category_id].settings.tier_options) - 1
          IN  \A i \in Items :
                  /\ \E k \in 1..Len(results) : results[k].item_id = i
                  /\ C24_IsMean(results[record(i)].average_rank,
                                { c \in C24_RankRows(call.category_id, i) :
                                    c.rank[1] # last })

\* the details of the count/shape rules, lines 96-141
C26_ShapeDetails ==
    { "Single choice mode requires exactly one choice",
      "ELO tournament mode requires exactly two choices (winner, loser)",
      "Winner and loser must be different items",
      "Ranked list mode requires at least two choices",
      "Tournament tiers mode requires pairs of (item_id, tier_index)",
      "Tournament tiers mode requires at least one vote",
      "Invalid tier index" }

\* the first check, in the order fingerprint format, abuse detection, category
\* exists, category active, no prior vote, item eligibility, count/shape rule,
\* that the request c fails against the store and the counter store, as
\* << status, detail >> ("shape" for any detail of the count/shape rule), or
\* None when it passes them all
C26_FirstFailure(store, rds, c) ==
    LET id == get_vote_identity(CHOOSE ip \in ClientIps : TRUE, c.fingerprint)
        category == store.categories[c.category_id]
        mode == category.comparison_mode
        valid == ValidItemIds(store, c.category_id)
        n == Len(c.choices)
        ineligible ==
            \E i \in 1..n : /\ c.choices[i] \notin valid
                            /\ (mode = "tournament_tiers" => i % 2 = 1)
        misshapen ==
            CASE mode = "single_choice" -> n # 1
              [] mode = "elo_tournament" -> n # 2 \/ c.choices[1] = c.choices[2]
              [] mode = "ranked_list" -> n < 2
              [] mode = "tournament_tiers" ->
                    \/ n % 2 # 0
                    \/ n < 2
                    \/ \E i \in 1..(n \div 2) :
                           c.choices[2 * i] \notin
                               0..(Len(category.settings.tier_options) - 1)
              [] OTHER -> FALSE
    IN  IF ~FingerprintValid[c.fingerprint]
        THEN Some(<< 400, "Invalid fingerprint format" >>)
        ELSE IF check_suspicious_patterns(rds, id.ip_hash, id.fingerprint_hash,
                                          c.redis_fault).is_suspicious
        THEN Some(<< 429, "Suspicious activity" >>)
        ELSE IF c.category_id \notin DOMAIN store.categories
        THEN Some(<< 404, "Category not found" >>)
        ELSE IF ~category.is_active
        THEN Some(<< 400, "Category is not active" >>)
        ELSE IF SelectVote(store, c.category_id, id.fingerprint_hash) # {}
        THEN Some(<< 409, "Already voted in this category" >>)
        ELSE IF ineligible
        THEN Some(<< 400, "Item is not valid for this category" >>)
        ELSE IF misshapen
        THEN Some(<< 400, "shape" >>)
        ELSE None

\* C26: a submit_vote that fails one or more of the checks fingerprint format,
\* abuse detection, category exists, category active, no prior vote, item
\* eligibility, count/shape rule is answered with the reason of the first of
\* them, in this order, that it fails
C26_FirstFailingCheckIsReported ==
    [][ call'.kind = "submit" =>
          LET first == C26_FirstFailure(db, redis, call')
          IN  first # None =>
                /\ resp'.status = first[1][1]
                /\ IF first[1][2] = "shape"
                   THEN resp'.detail \in C26_ShapeDetails
                   ELSE resp'.detail = first[1][2] ]_vars

\* C27: every submit_vote, accepted or rejected, is reported once through
\* record_vote_attempt (while the counter store answers), with the voter's
\* identity, the category and a success flag that tells whether the vote was
\* persisted
C27_EveryAttemptIsRecorded ==
    [][ ( call'.kind = "submit" /\ call'.redis_fault = "none" ) =>
          \E ip \in ClientIps :
              redis'.attempts = redis.attempts (+) SetToBag({
                  << hash_ip(ip), call'.fingerprint, call'.category_id,
                     resp'.status = 200 /\ resp'.wrote >> }) ]_vars

\* C28: an upsert_vote that reaches the Vote lookup consults the abuse detection
\* exactly when the voter has no Vote in the category: then the check's writes
\* reach the counter store and a suspicious voter is answered 429; with a Vote
\* the counter store is left alone and the answer is never 429
C28_UpsertChecksNewVotersOnly ==
    [][ C9_ValidUpsert(call') =>
          \E ip \in ClientIps :
              LET id == get_vote_identity(ip, call'.fingerprint)
                  check == check_suspicious_patterns(
                               redis, id.ip_hash, id.fingerprint_hash,
                               call'.redis_fault)
              IN  IF SelectVote(db, call'.category_id, id.fingerprint_hash) = {}
                  THEN /\ redis' = check.redis
                       /\ check.is_suspicious => resp'.status = 429
                  ELSE /\ redis' = redis
                       /\ resp'.status # 429 ]_vars

\* C29: an upsert_vote for a category whose mode is not tournament_tiers is
\* rejected, and no request removes or changes a Vote row, or a VoteChoice row
\* of a vote in a single_choice, elo_tournament or ranked_list category
C29_UpsertRejectedOutsideTiers ==
    [][ /\ ( /\ call'.kind = "upsert"
             /\ call'.category_id \in DOMAIN db.categories
             /\ db.categories[call'.category_id].comparison_mode
                    # "tournament_tiers" )
           => resp'.status \in Rejections
        /\ db.votes \subseteq db'.votes
        /\ \A c \in db.vote_choices :
               ( \E v \in db.votes :
                     /\ v.id = c.vote_id
                     /\ db.categories[v.category_id].comparison_mode
                            # "tournament_tiers" )
               => c \in db'.vote_choices ]_vars

\* C38: when record_match(A, B) between A and B at 1500.0 is followed by
\* record_match(B, A) in the same category, A and B are not both back at
\* 1500.0: B, the later winner, ends above A.  The same two matches in the
\* other order are this case with A and B exchanged, and end with A above B:
\* the final ratings depend on the order
C38_RatingsDependOnOrder ==
    [][ ( /\ call.kind = "record_match"
          /\ resp.body = Some(<< 151600, 148400 >>)
          /\ call'.kind = "record_match"
          /\ call'.category_id = call.category_id
          /\ call'.choices = << call.choices[2], call.choices[1] >> )
        => LET a == C22_RatingOf(db', call.category_id, call.choices[1]).rating
               b == C22_RatingOf(db', call.category_id, call.choices[2]).rating
           IN  /\ ~(a = 150000 /\ b = 150000)
               /\ a < b ]_vars

\* record_match(A, B) from 1500.0 each, then record_match(B, A), were recorded
C38_Witness ==
    /\ call.kind = "record_match"
    /\ GamesPlayed(db.elo_ratings) = 4
    /\ C22_RatingOf(db, call.category_id, call.choices[1]).games_played = 2
    /\ C22_RatingOf(db, call.category_id, call.choices[2]).games_played = 2
    /\ C22_RatingOf(db, call.category_id, call.choices[1]).rating = 150147
    /\ C22_RatingOf(db, call.category_id, call.choices[2]).rating = 149853

\* C37: the results of a ranked_list category are in ascending order of
\* average_rank, the items without ranks last, and items of equal average_rank
\* (or both without ranks) in the order of their item ids
C37_RankedOrderTiesByItemId ==
    ( /\ call.kind = "results"
      /\ call.category_id \in DOMAIN Categories
      /\ Categories[call.category_id].comparison_mode = "ranked_list"
      /\ resp.status = 200 )
    => LET results == resp.body[1].results
           ranked(k) == results[k].average_rank # None
       IN  \A k \in 1..Len(results) : \A l \in 1..Len(results) :
               k < l =>
                   /\ ranked(l) => ranked(k)
                   /\ ranked(k) /\ ranked(l) =>
                          results[k].average_rank[1] <= results[l].average_rank[1]
                   /\ results[k].average_rank = results[l].average_rank =>
                          results[k].item_id < results[l].item_id

\* C35: for a category whose settings have private_results set, get_results
\* answers with results exactly when the request carries a well-formed
\* fingerprint that has a Vote row in that category; every other request is
\* answered 403 without result records, whatever the voter's votes in other
\* categories
C35_PrivateResultsNeedOwnVote ==
    ( /\ call.kind = "results"
      /\ call.category_id \in DOMAIN db.categories
      /\ "private_results" \in DOMAIN db.categories[call.category_id].settings
      /\ db.categories[call.category_id].settings.private_results )
    => IF /\ call.fingerprint \in Fingerprints
          /\ FingerprintValid[call.fingerprint]
          /\ \E v \in db.votes : /\ v.category_id = call.category_id
                                 /\ v.fingerprint_hash = call.fingerprint
       THEN /\ resp.status = 200
            /\ resp.body # None
            /\ Len(resp.body[1].results) = Cardinality(Items)
       ELSE /\ resp.status = 403
            /\ resp.body = None

\* results of a private category were refused to a voter who has voted in
\* another category only
C35_Witness ==
    /\ call.kind = "results"
    /\ call.category_id = 1
    /\ call.fingerprint = "f1"
    /\ db.categories[1].settings = PrivateSettings
    /\ \E v \in db.votes : v.category_id = 3 /\ v.fingerprint_hash = "f1"
    /\ ~\E v \in db.votes : v.category_id = 1 /\ v.fingerprint_hash = "f1"
    /\ resp.status = 403

\* C36: get_vote_status for a category and a well-formed fingerprint reports
\* has_voted = true, with the id of the row, exactly when a Vote row exists for
\* the category and the fingerprint; an accepted submit_vote or upsert_vote
\* leaves such a row for its voter and category (so that the report is true
\* afterwards), and a request that was not accepted leaves the Vote rows of
\* every voter and category as they were
C36_StatusTellsWhetherVoteExists ==
    [][ /\ ( call'.kind = "status" /\ FingerprintValid[call'.fingerprint] ) =>
              LET rows == { v \in db.votes :
                              /\ v.category_id = call'.category_id
                              /\ v.fingerprint_hash = call'.fingerprint }
              IN  /\ resp'.status = 200
                  /\ resp'.body = Some([ has_voted |-> rows # {} ])
                  /\ resp'.vote_id \in IF rows = {} THEN { None }
                                       ELSE { Some(v.id) : v \in rows }
        /\ call'.kind \in { "submit", "upsert" } =>
              IF resp'.status = 200
              THEN \E v \in db'.votes :
                       /\ v.category_id = call'.category_id
                       /\ v.fingerprint_hash = call'.fingerprint
                       /\ resp'.vote_id = Some(v.id)
              ELSE db'.votes = db.votes ]_vars

\* the status of a voter who has a Vote in the category was reported after a
\* submission of the voter in the category was rejected
C36_Witness ==
    /\ call.kind = "status"
    /\ call.category_id = 1
    /\ call.fingerprint = "f1"
    /\ resp.body = Some([ has_voted |-> TRUE ])
    /\ resp.vote_id = Some(1)
    /\ hash_ip("ip1") \in redis.fp_ips["f1"]

\* C34: whether submit_vote answers a submission as a duplicate (409) is
\* decided by the fingerprint alone: a submission that passed the checks before
\* the prior-vote lookup is a duplicate exactly when a Vote row of the category
\* holds the same fingerprint string, whatever address it and the earlier vote
\* came from; so the fingerprint of a voter sent from another address is a
\* duplicate, and another fingerprint sent from the voter's address is not
C34_DuplicateByFingerprintAlone ==
    [][ call'.kind = "submit" =>
          ( resp'.status = 409 <=>
              /\ FingerprintValid[call'.fingerprint]
              /\ ~resp'.flagged
              /\ resp'.active
              /\ \E v \in db.votes :
                     /\ v.category_id = call'.category_id
                     /\ v.fingerprint_hash = call'.fingerprint ) ]_vars

\* the fingerprint that voted in category 1 from ip1 was sent from ip2 and
\* answered as a duplicate
C34_Witness ==
    /\ call.kind = "submit"
    /\ call.category_id = 1
    /\ call.fingerprint = "f1"
    /\ call.ip = "ip2"
    /\ \E v \in db.votes : /\ v.category_id = 1
                           /\ v.fingerprint_hash = "f1"
                           /\ v.ip_hash # hash_ip("ip2")
    /\ resp.status = 409
    /\ resp.detail = "Already voted in this category"

\* C32: admission and results use the same number of tiers whatever the
\* settings of the category hold (tier_options present, absent or empty): a
\* vote admitted with tier index t is counted by the results in the tier
\* distribution of its item under a configured label, and the index the
\* results leave out of average_tier is the largest index admission accepts
C32_SameTierCountInAdmissionAndResults ==
    ( resp.kind = "tier_results" /\ resp.status = 200 ) =>
        LET settings == db.categories[call.category_id].settings
            item_id == call.choices[1]
            tier_index == call.choices[2]
            results == resp.body[1]
            r == results[CHOOSE k \in 1..Len(results) : results[k].item_id = item_id]
            distribution == r.metadata[1].tier_distribution
        IN  /\ \E label \in DOMAIN distribution : distribution[label] = 1
            /\ r.average_rank = None <=> tier_index = num_tiers(settings) - 1

\* C31: the committed EloRating rows hold at most one row per (category_id,
\* item_id), also when two sessions both play the first match of an item at
\* once; every row is the row of an item that has played at least one match;
\* and no step removes the row of a (category_id, item_id)
C31_OneRatingRowPerItem ==
    [][ /\ \A r1 \in db'.elo_ratings, r2 \in db'.elo_ratings :
               ( r1.category_id = r2.category_id /\ r1.item_id = r2.item_id )
                   => r1 = r2
        /\ \A r \in db'.elo_ratings : r.games_played >= 1
        /\ \A r \in db.elo_ratings :
               SelectRating(db', r.category_id, r.item_id) # {} ]_vars

\* a session that found no row of an item of its match was refused the INSERT,
\* because another session had committed the first match of the item in the
\* meantime, and the item has its one row
C31_Witness ==
    /\ resp.kind = "record_match"
    /\ resp.status = 500
    /\ resp.detail = "IntegrityError"
    /\ \E i \in { call.choices[1], call.choices[2] } :
           /\ Cardinality(SelectRating(db, call.category_id, i)) = 1
           /\ \A r \in SelectRating(db, call.category_id, i) : r.games_played = 1

\* C10: under every interleaving of record_match sessions of a category no
\* update of games_played is lost: every committed match adds two to the sum of
\* games_played over the EloRating rows, so that the sum is twice the number
\* of matches committed
C10_NoGameLost ==
    [][ ( /\ resp'.kind = "record_match"
          /\ resp'.status = 200
          /\ BagCardinality(inflight') < BagCardinality(inflight) )
        => GamesPlayed(db'.elo_ratings) = GamesPlayed(db.elo_ratings) + 2 ]_vars

====
